---- MODULE Spec2Model ----
(***************************************************************************)
(* Commit classification and aggregation pipeline of codetimemachine:      *)
(* src/lib/github-analysis.ts (categorizeCommit, extractBusinessFeature,   *)
(* calculateComplexity, fetchCompleteCommitHistory, analyzeRepositoryData) *)
(* and the hosted analysis route that drives them (GET), the per-route     *)
(* analysis handlers with their own aggregation loop, two calls of         *)
(* analyzeRepositoryData made after or beside each other, the prompt       *)
(* context of the hosted query route, the copies of the classifier,        *)
(* repositoryStore with the clone route, and the analysis state of the     *)
(* page component.                                                         *)
(*                                                                         *)
(* Messages are TLA+ strings; String.prototype.includes and toLowerCase    *)
(* are computed character by character.  An optional value (a field that   *)
(* may be undefined) is the empty set or a one-element set.                *)
(***************************************************************************)
EXTENDS Integers, Sequences, FiniteSets, TLC

VARIABLES
    \* ---- classifier called on one message
    message,        \* the argument of categorizeCommit / extractBusinessFeature
    catResult,      \* optional {category, impact} returned by categorizeCommit
    featResult,     \* optional string returned by extractBusinessFeature
    \* ---- calculateComplexity called on two stats objects
    statsA, statsB, \* the arguments (fields optional)
    scoreA, scoreB, \* optional results
    \* ---- the hosted analysis route GET /api/github/analysis/[repoId]
    pc,             \* position of the handler
    repoId,         \* request parameter
    repoSize,       \* number of commits the hosted source holds for the repository
    repoExists,     \* whether repos.get succeeds
    pageFailAt,     \* the page request that throws (0: none does)
    detailFailEvery,\* getCommit throws for every sha that is a multiple of it (0: for none)
    clock,          \* wall clock read by new Date()
    allCommits, page, hasMore,                  \* locals of fetchCompleteCommitHistory
    pageRequests,   \* sequence of page numbers requested so far
    historyFailed,  \* a listCommits request has thrown
    commits, i,                                 \* argument / loop index of analyzeRepositoryData
    commitAnalyses, authorStats, businessFeatures,  \* accumulators of analyzeRepositoryData
    detailRequests, \* sequence of loop indices for which getCommit was requested
    detailFailed,   \* set of loop indices whose getCommit request threw
    response,       \* optional response of the handler
    \* ---- two calls of analyzeRepositoryData made side by side
    runInputs,      \* per call, the first commit and the number of commits of its argument
    runs,           \* per call, its position, loop index, accumulators and result
    \* ---- the prompt context of the hosted query route
    analysisData,   \* the commits of the analysis result the context is built from
    repoContext,    \* optional context, with its allCommits list
    \* ---- the copies of the classifier called on one message
    copyResults,    \* per copy, its optional {category, feature}
    \* ---- repositoryStore
    repositories,   \* the module-level array of the store
    storeCall,      \* optional record of the last call: its name, argument, store before, return value
    \* ---- POST /api/clone requests
    cloneRequests,  \* per request, its position, URL, parsed names and optional response
    \* ---- the page component
    selectedRepo,   \* optional id of the selected repository
    pageAnalysisData,   \* the analysisData state of the page: optional analysis
    isLoadingAnalysis,
    fetches         \* the fetchAnalysis calls made so far: repository id and status

promptVars == <<analysisData, repoContext>>
copyVars == <<copyResults>>
storeVars == <<repositories, storeCall>>
cloneVars == <<cloneRequests>>
pageVars == <<selectedRepo, pageAnalysisData, isLoadingAnalysis, fetches>>
otherVars == <<promptVars, copyVars, storeVars, cloneVars, pageVars>>
classifierVars == <<message, catResult, featResult>>
complexityVars == <<statsA, statsB, scoreA, scoreB>>
routeVars == <<pc, repoId, repoSize, repoExists, pageFailAt, detailFailEvery, clock,
               allCommits, page, hasMore, pageRequests, historyFailed,
               commits, i, commitAnalyses, authorStats, businessFeatures,
               detailRequests, detailFailed, response, runInputs, runs>>
routeData == <<repoId, repoSize, repoExists, pageFailAt, detailFailEvery, clock,
               allCommits, page, hasMore, pageRequests, historyFailed,
               commits, i, commitAnalyses, authorStats, businessFeatures,
               detailRequests, detailFailed, response, runInputs, runs, otherVars>>
pipelineVars == <<classifierVars, complexityVars, routeVars>>
vars == <<pipelineVars, otherVars>>

----------------------------------------------------------------------------
(* Optional values and small helpers *)

None == {}
Some(v) == {v}
IsSome(o) == o # {}
TheValue(o) == CHOOSE v \in o : TRUE

Max(a, b) == IF a >= b THEN a ELSE b
Min(a, b) == IF a <= b THEN a ELSE b

\* x || 0 for an optional number (undefined and 0 are both falsy)
OrZero(o) == IF IsSome(o) /\ TheValue(o) # 0 THEN TheValue(o) ELSE 0

----------------------------------------------------------------------------
(* Strings *)

LowerChar(c) ==
    CASE c = "A" -> "a" [] c = "B" -> "b" [] c = "C" -> "c" [] c = "D" -> "d"
      [] c = "E" -> "e" [] c = "F" -> "f" [] c = "G" -> "g" [] c = "H" -> "h"
      [] c = "I" -> "i" [] c = "J" -> "j" [] c = "K" -> "k" [] c = "L" -> "l"
      [] c = "M" -> "m" [] c = "N" -> "n" [] c = "O" -> "o" [] c = "P" -> "p"
      [] c = "Q" -> "q" [] c = "R" -> "r" [] c = "S" -> "s" [] c = "T" -> "t"
      [] c = "U" -> "u" [] c = "V" -> "v" [] c = "W" -> "w" [] c = "X" -> "x"
      [] c = "Y" -> "y" [] c = "Z" -> "z" [] OTHER -> c

RECURSIVE LowerRange(_, _, _)
\* The characters lo..hi of s, each lower-cased (halving keeps the recursion shallow)
LowerRange(s, lo, hi) ==
    IF lo > hi THEN ""
    ELSE IF lo = hi THEN LowerChar(SubSeq(s, lo, lo))
    ELSE LET mid == (lo + hi) \div 2
         IN LowerRange(s, lo, mid) \o LowerRange(s, mid + 1, hi)

\* String.prototype.toLowerCase
ToLowerCase(s) == LowerRange(s, 1, Len(s))

\* String.prototype.includes
Includes(s, t) ==
    \E k \in 0..(Len(s) - Len(t)) : SubSeq(s, k + 1, k + Len(t)) = t

----------------------------------------------------------------------------
(* Classifier *)

\* The result of the first pair <<triggers, result>> with a trigger in msg
FirstMatch(msg, rules, default) ==
    LET hits == {r \in 1..Len(rules) : \E t \in rules[r][1] : Includes(msg, t)}
    IN IF hits = {} THEN default
       ELSE rules[CHOOSE r \in hits : \A q \in hits : r <= q][2]

\* categorizeCommit with the bugfix rule tested before the feature rule
categorizeCommitBugfixFirst(m) ==
    FirstMatch(ToLowerCase(m),
               << <<{"fix", "bug"}, [category |-> "bugfix", impact |-> "stability"]>>,
                  <<{"feat", "feature", "add"}, [category |-> "feature", impact |-> "enhancement"]>>,
                  <<{"refactor", "clean"}, [category |-> "refactor", impact |-> "technical debt"]>>,
                  <<{"test", "spec"}, [category |-> "testing", impact |-> "quality"]>>,
                  <<{"doc", "readme"}, [category |-> "documentation", impact |-> "usability"]>>,
                  <<{"perf", "optimize"}, [category |-> "performance", impact |-> "performance"]>>,
                  <<{"security", "auth"}, [category |-> "security", impact |-> "security"]>> >>,
               [category |-> "other", impact |-> "maintenance"])

\* categorizeCommit with the initial impact left at the category's name
categorizeCommitDefaultImpact(m) ==
    FirstMatch(ToLowerCase(m),
               << <<{"feat", "feature", "add"}, [category |-> "feature", impact |-> "enhancement"]>>,
                  <<{"fix", "bug"}, [category |-> "bugfix", impact |-> "stability"]>>,
                  <<{"refactor", "clean"}, [category |-> "refactor", impact |-> "technical debt"]>>,
                  <<{"test", "spec"}, [category |-> "testing", impact |-> "quality"]>>,
                  <<{"doc", "readme"}, [category |-> "documentation", impact |-> "usability"]>>,
                  <<{"perf", "optimize"}, [category |-> "performance", impact |-> "performance"]>>,
                  <<{"security", "auth"}, [category |-> "security", impact |-> "security"]>> >>,
               [category |-> "other", impact |-> "other"])

categorizeCommit(m) ==
    LET msg == ToLowerCase(m) IN
    IF Includes(msg, "feat") \/ Includes(msg, "feature") \/ Includes(msg, "add")
    THEN [category |-> "feature", impact |-> "enhancement"]
    ELSE IF Includes(msg, "fix") \/ Includes(msg, "bug")
    THEN [category |-> "bugfix", impact |-> "stability"]
    ELSE IF Includes(msg, "refactor") \/ Includes(msg, "clean")
    THEN [category |-> "refactor", impact |-> "technical debt"]
    ELSE IF Includes(msg, "test") \/ Includes(msg, "spec")
    THEN [category |-> "testing", impact |-> "quality"]
    ELSE IF Includes(msg, "doc") \/ Includes(msg, "readme")
    THEN [category |-> "documentation", impact |-> "usability"]
    ELSE IF Includes(msg, "perf") \/ Includes(msg, "optimize")
    THEN [category |-> "performance", impact |-> "performance"]
    ELSE IF Includes(msg, "security") \/ Includes(msg, "auth")
    THEN [category |-> "security", impact |-> "security"]
    ELSE [category |-> "other", impact |-> "maintenance"]

\* extractBusinessFeature with the DevOps rule tested before the UI/UX rule
extractBusinessFeatureDevOpsFirst(m) ==
    FirstMatch(ToLowerCase(m),
               << <<{"auth", "login", "signup"}, "Authentication">>,
                  <<{"user", "profile"}, "User Management">>,
                  <<{"api", "endpoint"}, "API Development">>,
                  <<{"deploy", "ci", "build"}, "DevOps">>,
                  <<{"ui", "frontend", "component"}, "UI/UX">>,
                  <<{"database", "db", "migration"}, "Database">>,
                  <<{"test", "spec"}, "Testing">>,
                  <<{"doc", "readme"}, "Documentation">> >>,
               "Core Development")

extractBusinessFeature(m) ==
    LET msg == ToLowerCase(m) IN
    IF Includes(msg, "auth") \/ Includes(msg, "login") \/ Includes(msg, "signup")
    THEN "Authentication"
    ELSE IF Includes(msg, "user") \/ Includes(msg, "profile")
    THEN "User Management"
    ELSE IF Includes(msg, "api") \/ Includes(msg, "endpoint")
    THEN "API Development"
    ELSE IF Includes(msg, "ui") \/ Includes(msg, "frontend") \/ Includes(msg, "component")
    THEN "UI/UX"
    ELSE IF Includes(msg, "database") \/ Includes(msg, "db") \/ Includes(msg, "migration")
    THEN "Database"
    ELSE IF Includes(msg, "deploy") \/ Includes(msg, "ci") \/ Includes(msg, "build")
    THEN "DevOps"
    ELSE IF Includes(msg, "test") \/ Includes(msg, "spec")
    THEN "Testing"
    ELSE IF Includes(msg, "doc") \/ Includes(msg, "readme")
    THEN "Documentation"
    ELSE "Core Development"

----------------------------------------------------------------------------
(* Complexity scorer *)

(***************************************************************************)
(* Math.log is real-valued.  10 ln(f+1) + 5 ln(l+1) = 5 ln((f+1)^2 (l+1)), *)
(* and x |-> 5 ln(x) is strictly increasing, so a score is carried as the  *)
(* integer x whose score is 5 ln(x): score 0 is x = 1, and the cap         *)
(* 100 = 5 ln(e^20) is carried as ExpCap, the least integer above e^20     *)
(* (e^20 = 485165195.4...): Math.min(100, 5 ln(x)) is 100 exactly when     *)
(* x >= ExpCap.                                                            *)
(***************************************************************************)
ExpCap == 485165196

\* calculateComplexity without the Math.min(100, ...) cap
calculateComplexityUncapped(stats) ==
    LET files == OrZero(stats.files)
        insertions == OrZero(stats.insertions)
        deletions == OrZero(stats.deletions)
    IN ((files + 1) * (files + 1)) * (insertions + deletions + 1)

calculateComplexity(stats) ==
    LET files == OrZero(stats.files)
        insertions == OrZero(stats.insertions)
        deletions == OrZero(stats.deletions)
    IN Min(ExpCap, ((files + 1) * (files + 1)) * (insertions + deletions + 1))

----------------------------------------------------------------------------
(* Inputs of the direct calls *)

MaxFrags == 2
MaxFiles == 999
MaxLines == 500

Frags ==
    {"feat", "FEATURE", "Add", "Fix", "bug", "refactor", "clean", "test",
     "spec", "doc", "README", "perf", "Optimize", "security", "auth", "login",
     "signup", "user", "profile", "API", "endpoint", "ui", "frontend",
     "component", "database", "db", "migration", "deploy", "ci", "build",
     " ", "x", "fe", "at", ": typo"}

RECURSIVE MessagesUpTo(_)
MessagesUpTo(n) ==
    IF n = 0 THEN {""}
    ELSE LET shorter == MessagesUpTo(n - 1)
         IN shorter \cup {s \o f : s \in shorter, f \in Frags}

Messages == MessagesUpTo(MaxFrags)

OptFiles == {None} \cup {Some(n) : n \in {0, 1, 2, MaxFiles}}
OptLines == {None} \cup {Some(n) : n \in {0, 1, MaxLines}}
StatsInputs == [files : OptFiles, insertions : OptLines, deletions : OptLines]

----------------------------------------------------------------------------
(* State of the parts that are not running *)

ClassifierIdle == message = "" /\ catResult = None /\ featResult = None

ComplexityIdle ==
    /\ statsA = [files |-> None, insertions |-> None, deletions |-> None]
    /\ statsB = [files |-> None, insertions |-> None, deletions |-> None]
    /\ scoreA = None
    /\ scoreB = None

RunIds == {1, 2}

\* A call that has not been made
IdleRun ==
    [pc |-> "idle", i |-> 0, commitAnalyses |-> <<>>, authorStats |-> <<>>,
     businessFeatures |-> <<>>, detailRequests |-> <<>>, clockReads |-> <<>>,
     result |-> None]

RunsIdle ==
    /\ runInputs = [r \in RunIds |-> <<1, 0>>]
    /\ runs = [r \in RunIds |-> IdleRun]

PromptIdle == analysisData = <<>> /\ repoContext = None

CopyNames == {"hosted", "local", "inline"}

CopiesIdle == copyResults = [c \in CopyNames |-> None]

StoreIdle == repositories = <<>> /\ storeCall = None

CloneIds == {1, 2}

CloneIdle ==
    cloneRequests = [c \in CloneIds |->
                        [pc |-> "idle", repoUrl |-> "", parsed |-> None, response |-> None]]

PageIdle ==
    /\ selectedRepo = None
    /\ pageAnalysisData = None
    /\ isLoadingAnalysis = FALSE
    /\ fetches = <<>>

OthersIdle == PromptIdle /\ CopiesIdle /\ StoreIdle /\ CloneIdle /\ PageIdle

HandlersIdle ==
    /\ RunsIdle
    /\ repoId = ""
    /\ repoSize = 0
    /\ repoExists = FALSE
    /\ pageFailAt = 0
    /\ detailFailEvery = 0
    /\ clock = 0
    /\ allCommits = <<>>
    /\ page = 1
    /\ hasMore = TRUE
    /\ pageRequests = <<>>
    /\ historyFailed = FALSE
    /\ commits = <<>>
    /\ i = 0
    /\ commitAnalyses = <<>>
    /\ authorStats = <<>>
    /\ businessFeatures = <<>>
    /\ detailRequests = <<>>
    /\ detailFailed = {}
    /\ response = None

RouteIdle == OthersIdle /\ HandlersIdle

----------------------------------------------------------------------------
(* Direct calls of the classifier on one message *)

InitClassifier ==
    /\ pc = "classify"
    /\ message \in Messages
    /\ catResult = None
    /\ featResult = None
    /\ ComplexityIdle
    /\ RouteIdle

CallCategorize ==
    /\ pc = "classify"
    /\ catResult = None
    /\ catResult' = Some(categorizeCommit(message))
    /\ UNCHANGED <<pc, message, featResult, complexityVars>>
    /\ UNCHANGED routeData

CallExtractFeature ==
    /\ pc = "classify"
    /\ featResult = None
    /\ featResult' = Some(extractBusinessFeature(message))
    /\ UNCHANGED <<pc, message, catResult, complexityVars>>
    /\ UNCHANGED routeData

NextClassifier == CallCategorize \/ CallExtractFeature

SpecClassifier == InitClassifier /\ [][NextClassifier]_vars

----------------------------------------------------------------------------
(* Direct calls of calculateComplexity on two stats objects *)

InitComplexity ==
    /\ pc = "score"
    /\ statsA \in StatsInputs
    /\ statsB \in StatsInputs
    /\ scoreA = None
    /\ scoreB = None
    /\ ClassifierIdle
    /\ RouteIdle

CallComplexityA ==
    /\ pc = "score"
    /\ scoreA = None
    /\ scoreA' = Some(calculateComplexity(statsA))
    /\ UNCHANGED <<pc, statsA, statsB, scoreB, classifierVars>>
    /\ UNCHANGED routeData

CallComplexityB ==
    /\ pc = "score"
    /\ scoreA # None
    /\ scoreB = None
    /\ scoreB' = Some(calculateComplexity(statsB))
    /\ UNCHANGED <<pc, statsA, statsB, scoreA, classifierVars>>
    /\ UNCHANGED routeData

NextComplexity == CallComplexityA \/ CallComplexityB

SpecComplexity == InitComplexity /\ [][NextComplexity]_vars

----------------------------------------------------------------------------
(* The hosted source: repository contents and the outcomes of its requests *)

PerPage == 100
MaxCommits == 1000
DetailBudget == 50

ClockStart == 5000
MaxTicks == 1

RepoIds == {"octocat-hello-world", "nodash"}
RepoSizes == {0, 1, DetailBudget + 1, PerPage, PerPage + 1, MaxCommits + 1}
PageFailures == {0, 1, 3}
DetailFailures == {0, 1, 2, 7}

Corpus ==
    << "feat: fix typo",
       "fix: resolve login bug",
       "feat: add payment API",
       "",
       "Refactor build scripts",
       "bump version",
       "Merge branch release into main: carry over the pending changes of the last two weeks so that both lines agree again before the tag",
       "docs: README for the user profile endpoint",
       "optimize auth token cache",
       "WIP",
       "tests for the parser",
       "security: rotate keys",
       "Rewrite the scheduler loop so that idle workers poll less often and wake up on demand" >>

CorpusMessage(k) == Corpus[(k % Len(Corpus)) + 1]

\* Author date of the k-th most recent commit (k = 1 is the newest)
DateOf(k) == 2000 - k

\* The record listCommits returns for the k-th most recent commit; the oldest
\* commit of the repository carries no author date.
RawCommit(k) ==
    [sha |-> k,
     message |-> CorpusMessage(k),
     authorName |-> CASE k % 6 = 1 -> Some("Ada")
                      [] k % 6 = 2 -> None
                      [] k % 6 = 3 -> None
                      [] k % 6 = 4 -> Some("42")
                      [] k % 6 = 5 -> Some("")
                      [] OTHER -> Some("constructor"),
     authorDate |-> IF k = repoSize THEN None ELSE Some(DateOf(k)),
     login |-> CASE k % 6 = 1 -> Some("ada-l")
                 [] k % 6 = 2 -> Some("octocat")
                 [] k % 6 = 5 -> Some("bob")
                 [] OTHER -> None]

\* The data of listCommits({per_page: PerPage, page: p})
PageData(p) ==
    LET first == (p - 1) * PerPage
        n == Max(0, Min(PerPage, repoSize - first))
    IN [k \in 1..n |-> RawCommit(first + k)]

\* The data of getCommit({ref: sha}): files (a count, possibly absent) and stats
DetailOf(sha) ==
    [files |-> IF sha % 11 = 0 THEN Some(MaxFiles)
               ELSE IF sha % 7 = 3 THEN None ELSE Some(sha % 4),
     additions |-> IF sha % 11 = 0 THEN Some(MaxLines)
                   ELSE IF sha % 5 = 4 THEN None ELSE Some((sha * 7) % 40),
     deletions |-> IF sha % 5 = 4 THEN None ELSE Some(sha % 3)]

DetailThrowsFor(sha) == detailFailEvery # 0 /\ sha % detailFailEvery = 0

----------------------------------------------------------------------------
(* JavaScript objects used as maps: own keys in property order *)

Digits == {"0", "1", "2", "3", "4", "5", "6", "7", "8", "9"}

RECURSIVE DigitsLess(_, _, _)
\* s < t for digit strings of equal length, compared from position k
DigitsLess(s, t, k) ==
    IF k > Len(s) THEN FALSE
    ELSE LET a == SubSeq(s, k, k)
             b == SubSeq(t, k, k)
         IN IF a = b THEN DigitsLess(s, t, k + 1)
            ELSE \E d \in 1..9 : /\ SubSeq("0123456789", d + 1, d + 1) = b
                                 /\ \E e \in 0..(d - 1) : SubSeq("0123456789", e + 1, e + 1) = a

\* A canonical numeric string below 2^32 - 1: such keys come first, ascending
IsArrayIndex(key) ==
    /\ Len(key) >= 1
    /\ \A k \in 1..Len(key) : SubSeq(key, k, k) \in Digits
    /\ Len(key) = 1 \/ SubSeq(key, 1, 1) # "0"
    /\ \/ Len(key) < 10
       \/ Len(key) = 10 /\ DigitsLess(key, "4294967295", 1)

IndexLess(a, b) == Len(a) < Len(b) \/ (Len(a) = Len(b) /\ DigitsLess(a, b, 1))

\* Names every object inherits from Object.prototype
ObjectPrototypeNames ==
    {"constructor", "toString", "toLocaleString", "valueOf", "hasOwnProperty",
     "isPrototypeOf", "propertyIsEnumerable", "__proto__", "__defineGetter__",
     "__defineSetter__", "__lookupGetter__", "__lookupSetter__"}

HasOwn(obj, key) == \E k \in 1..Len(obj) : obj[k].key = key
OwnIndex(obj, key) == CHOOSE k \in 1..Len(obj) : obj[k].key = key

\* !obj[key] : the property is neither an own entry nor inherited
IsFalsyAt(obj, key) == ~HasOwn(obj, key) /\ key \notin ObjectPrototypeNames

\* obj[key] = value for a new key
DefineOwn(obj, key, value) ==
    LET entry == [key |-> key, value |-> value]
        before == {k \in 1..Len(obj) :
                     IF IsArrayIndex(key)
                     THEN IsArrayIndex(obj[k].key) /\ IndexLess(obj[k].key, key)
                     ELSE TRUE}
        n == Cardinality(before)
    IN SubSeq(obj, 1, n) \o <<entry>> \o SubSeq(obj, n + 1, Len(obj))

\* Object.entries(obj).map(f)
Entries(obj) == obj

Reverse(seq) == [k \in 1..Len(seq) |-> seq[Len(seq) + 1 - k]]

----------------------------------------------------------------------------
(* The hosted analysis route: GET, fetchCompleteCommitHistory and            *)
(* analyzeRepositoryData                                                     *)

\* repoId.split('-'): owner is the first part, repo the rest joined by '-'
parseRepoId(id) ==
    LET dashes == {k \in 1..Len(id) : SubSeq(id, k, k) = "-"}
    IN IF dashes = {} THEN None
       ELSE LET d == CHOOSE k \in dashes : \A j \in dashes : k <= j
            IN Some([owner |-> SubSeq(id, 1, d - 1),
                     repo |-> SubSeq(id, d + 1, Len(id))])

\* a || b for optional strings: undefined and "" are falsy
Truthy(o) == IsSome(o) /\ TheValue(o) # ""

\* The catch branch with the divisor of filesChanged copied to insertions
EstimateAfterFailureCopiedDivisor(m) ==
    LET messageLength == Len(m)
    IN [filesChanged |-> Max(1, messageLength \div 50),
        insertions |-> Max(5, messageLength \div 50),
        deletions |-> Max(0, messageLength \div 20)]

\* The catch branch of the detail fetch
EstimateAfterFailure(m) ==
    LET messageLength == Len(m)
    IN [filesChanged |-> Max(1, messageLength \div 50),
        insertions |-> Max(5, messageLength \div 10),
        deletions |-> Max(0, messageLength \div 20)]

\* The else branch: commits at or beyond the detail budget
EstimateOlder(m) ==
    LET messageLength == Len(m)
    IN [filesChanged |-> Max(1, messageLength \div 50),
        insertions |-> Max(5, messageLength \div 10),
        deletions |-> Max(0, messageLength \div 20)]

\* The try branch: the signals read from the getCommit response
StatsFromDetails(commitDetails) ==
    [filesChanged |-> OrZero(commitDetails.files),
     insertions |-> OrZero(commitDetails.additions),
     deletions |-> OrZero(commitDetails.deletions)]

\* The loop condition with <= for <
ContinueFetchingInclusive == hasMore /\ Len(allCommits) <= MaxCommits

\* The loop condition of fetchCompleteCommitHistory
ContinueFetching == hasMore /\ Len(allCommits) < MaxCommits

\* The budget test with <= for <
WithinDetailBudgetInclusive(idx) == idx <= DetailBudget

\* Whether the commit at loop index idx gets a detail fetch
WithinDetailBudget(idx) == idx < DetailBudget

\* The CommitAnalysis record with businessImpact filled from the category
CommitAnalysisOfImpactFromCategory(commit, signals, date) ==
    LET classified == categorizeCommit(commit.message)
        authorName == IF Truthy(commit.authorName) THEN TheValue(commit.authorName)
                      ELSE IF Truthy(commit.login) THEN TheValue(commit.login)
                      ELSE "Unknown"
    IN [hash |-> commit.sha,
        date |-> date,
        author |-> authorName,
        message |-> commit.message,
        filesChanged |-> signals.filesChanged,
        insertions |-> signals.insertions,
        deletions |-> signals.deletions,
        complexity |-> calculateComplexity([files |-> Some(signals.filesChanged),
                                            insertions |-> Some(signals.insertions),
                                            deletions |-> Some(signals.deletions)]),
        semanticCategory |-> classified.category,
        businessImpact |-> classified.category]

\* The CommitAnalysis record with the login tried before the display name
CommitAnalysisOfLoginFirst(commit, signals, date) ==
    LET classified == categorizeCommit(commit.message)
        authorName == IF Truthy(commit.login) THEN TheValue(commit.login)
                      ELSE IF Truthy(commit.authorName) THEN TheValue(commit.authorName)
                      ELSE "Unknown"
    IN [hash |-> commit.sha,
        date |-> date,
        author |-> authorName,
        message |-> commit.message,
        filesChanged |-> signals.filesChanged,
        insertions |-> signals.insertions,
        deletions |-> signals.deletions,
        complexity |-> calculateComplexity([files |-> Some(signals.filesChanged),
                                            insertions |-> Some(signals.insertions),
                                            deletions |-> Some(signals.deletions)]),
        semanticCategory |-> classified.category,
        businessImpact |-> classified.impact]

\* The CommitAnalysis record of one commit
CommitAnalysisOf(commit, signals, date) ==
    LET classified == categorizeCommit(commit.message)
        authorName == IF Truthy(commit.authorName) THEN TheValue(commit.authorName)
                      ELSE IF Truthy(commit.login) THEN TheValue(commit.login)
                      ELSE "Unknown"
    IN [hash |-> commit.sha,
        date |-> date,
        author |-> authorName,
        message |-> commit.message,
        filesChanged |-> signals.filesChanged,
        insertions |-> signals.insertions,
        deletions |-> signals.deletions,
        complexity |-> calculateComplexity([files |-> Some(signals.filesChanged),
                                            insertions |-> Some(signals.insertions),
                                            deletions |-> Some(signals.deletions)]),
        semanticCategory |-> classified.category,
        businessImpact |-> classified.impact]

InitRouteData ==
    /\ OthersIdle
    /\ RunsIdle
    /\ repoId \in RepoIds
    /\ repoSize \in RepoSizes
    /\ repoExists \in BOOLEAN
    /\ pageFailAt \in PageFailures
    /\ detailFailEvery \in DetailFailures
    /\ clock = ClockStart
    /\ allCommits = <<>>
    /\ page = 1
    /\ hasMore = TRUE
    /\ pageRequests = <<>>
    /\ historyFailed = FALSE
    /\ commits = <<>>
    /\ i = 0
    /\ commitAnalyses = <<>>
    /\ authorStats = <<>>
    /\ businessFeatures = <<>>
    /\ detailRequests = <<>>
    /\ detailFailed = {}
    /\ response = None
    /\ ClassifierIdle
    /\ ComplexityIdle

InitRoute == pc = "start" /\ InitRouteData

fetchVars == <<allCommits, page, hasMore, pageRequests, historyFailed>>
analysisVars == <<commits, i, commitAnalyses, authorStats, businessFeatures,
                  detailRequests, detailFailed>>
oracleVars == <<repoId, repoSize, repoExists, pageFailAt, detailFailEvery>>
runVars == <<runInputs, runs>>

\* GET: the repository id does not parse
RespondInvalidId ==
    /\ pc = "start"
    /\ parseRepoId(repoId) = None
    /\ response' = Some([status |-> 400, error |-> "Invalid repository ID format"])
    /\ pc' = "done"
    /\ UNCHANGED <<otherVars, runVars, oracleVars, clock, fetchVars, analysisVars, classifierVars, complexityVars>>

\* GET: the id parses and repos.get is requested
VerifyRepository ==
    /\ pc = "start"
    /\ parseRepoId(repoId) # None
    /\ pc' = "verify"
    /\ UNCHANGED <<otherVars, runVars, oracleVars, clock, fetchVars, analysisVars, response,
                   classifierVars, complexityVars>>

\* GET: repos.get throws
RespondNotFound ==
    /\ pc = "verify"
    /\ ~repoExists
    /\ response' = Some([status |-> 404, error |-> "Repository not found"])
    /\ pc' = "done"
    /\ UNCHANGED <<otherVars, runVars, oracleVars, clock, fetchVars, analysisVars, classifierVars, complexityVars>>

\* GET: repos.get returns and fetchCompleteCommitHistory is entered
EnterFetch ==
    /\ pc = "verify"
    /\ repoExists
    /\ allCommits' = <<>>
    /\ page' = 1
    /\ hasMore' = TRUE
    /\ pc' = "fetch"
    /\ UNCHANGED <<otherVars, runVars, oracleVars, clock, pageRequests, historyFailed, analysisVars,
                   response, classifierVars, complexityVars>>

\* fetchCompleteCommitHistory: the loop condition holds, listCommits is requested
RequestPage ==
    /\ pc = "fetch"
    /\ ContinueFetching
    /\ pageRequests' = Append(pageRequests, page)
    /\ pc' = "awaitPage"
    /\ UNCHANGED <<otherVars, runVars, oracleVars, clock, allCommits, page, hasMore, historyFailed,
                   analysisVars, response, classifierVars, complexityVars>>

\* listCommits returns a page and only an empty page ends the loop
PageReturnsUntilEmpty ==
    /\ pc = "awaitPage"
    /\ page # pageFailAt
    /\ LET data == PageData(page)
       IN IF Len(data) = 0
          THEN /\ hasMore' = FALSE
               /\ UNCHANGED <<allCommits, page>>
          ELSE /\ allCommits' = allCommits \o data
               /\ page' = page + 1
               /\ hasMore' = hasMore
    /\ pc' = "fetch"
    /\ UNCHANGED <<otherVars, runVars, oracleVars, clock, pageRequests, historyFailed, analysisVars,
                   response, classifierVars, complexityVars>>

\* fetchCompleteCommitHistory: listCommits returns a page
PageReturns ==
    /\ pc = "awaitPage"
    /\ page # pageFailAt
    /\ LET data == PageData(page)
       IN IF Len(data) = 0
          THEN /\ hasMore' = FALSE
               /\ UNCHANGED <<allCommits, page>>
          ELSE /\ allCommits' = allCommits \o data
               /\ page' = page + 1
               /\ hasMore' = IF Len(data) < PerPage THEN FALSE ELSE hasMore
    /\ pc' = "fetch"
    /\ UNCHANGED <<otherVars, runVars, oracleVars, clock, pageRequests, historyFailed, analysisVars,
                   response, classifierVars, complexityVars>>

\* listCommits throws and the loop goes on with the next page
PageThrowsSkipsPage ==
    /\ pc = "awaitPage"
    /\ page = pageFailAt
    /\ page' = page + 1
    /\ historyFailed' = TRUE
    /\ pc' = "fetch"
    /\ UNCHANGED <<otherVars, runVars, oracleVars, clock, allCommits, hasMore, pageRequests,
                   analysisVars, response, classifierVars, complexityVars>>

\* fetchCompleteCommitHistory: listCommits throws, the catch ends the loop
PageThrows ==
    /\ pc = "awaitPage"
    /\ page = pageFailAt
    /\ hasMore' = FALSE
    /\ historyFailed' = TRUE
    /\ pc' = "fetch"
    /\ UNCHANGED <<otherVars, runVars, oracleVars, clock, allCommits, page, pageRequests, analysisVars,
                   response, classifierVars, complexityVars>>

\* fetchCompleteCommitHistory returns allCommits; GET passes it to
\* analyzeRepositoryData, which starts with empty accumulators
ReturnHistory ==
    /\ pc = "fetch"
    /\ ~ContinueFetching
    /\ commits' = allCommits
    /\ i' = 0
    /\ commitAnalyses' = <<>>
    /\ authorStats' = <<>>
    /\ businessFeatures' = <<>>
    /\ pc' = "analyze"
    /\ UNCHANGED <<otherVars, runVars, oracleVars, clock, fetchVars, detailRequests, detailFailed,
                   response, classifierVars, complexityVars>>

\* authorStats after one commit of authorName changing that many lines
AddAuthor(stats, authorName, lines) ==
    LET stats1 == IF IsFalsyAt(stats, authorName)
                  THEN DefineOwn(stats, authorName, [commits |-> 0, lines |-> 0])
                  ELSE stats
    IN IF HasOwn(stats1, authorName)
       THEN LET k == OwnIndex(stats1, authorName)
            IN [stats1 EXCEPT ![k].value.commits = @ + 1,
                              ![k].value.lines = @ + lines]
       ELSE stats1

\* The bucket update that records a commit only when it opens the bucket
AddFeatureOpeningOnly(features, businessFeature, sha, timelineDate) ==
    IF IsFalsyAt(features, businessFeature)
    THEN DefineOwn(features, businessFeature,
                   [commits |-> <<sha>>, timeline |-> <<timelineDate>>])
    ELSE features

\* businessFeatures after one commit of the bucket businessFeature
AddFeature(features, businessFeature, sha, timelineDate) ==
    LET features1 == IF IsFalsyAt(features, businessFeature)
                     THEN DefineOwn(features, businessFeature,
                                    [commits |-> <<>>, timeline |-> <<>>])
                     ELSE features
        k == OwnIndex(features1, businessFeature)
    IN [features1 EXCEPT ![k].value.commits = Append(@, sha),
                         ![k].value.timeline = Append(@, timelineDate)]

\* analyzeRepositoryData: the rest of one loop iteration, from the change-size
\* signals to the accumulators
FinishIteration(signals) ==
    LET commit == commits[i + 1]
        businessFeature == extractBusinessFeature(commit.message)
        dated == IsSome(commit.authorDate)
    IN \E tick1 \in 0..1, tick2 \in 0..1 :
        /\ dated => (tick1 = 0 /\ tick2 = 0)
        /\ clock + tick1 + tick2 <= ClockStart + MaxTicks
        /\ LET date == IF dated THEN TheValue(commit.authorDate) ELSE clock + tick1
               timelineDate == IF dated THEN TheValue(commit.authorDate)
                               ELSE clock + tick1 + tick2
               commitAnalysis == CommitAnalysisOf(commit, signals, date)
           IN /\ commitAnalyses' = Append(commitAnalyses, commitAnalysis)
              /\ authorStats' = AddAuthor(authorStats, commitAnalysis.author,
                                          signals.insertions + signals.deletions)
              /\ businessFeatures' = AddFeature(businessFeatures, businessFeature,
                                                commit.sha, timelineDate)
              /\ clock' = clock + tick1 + tick2
        /\ i' = i + 1
        /\ pc' = "analyze"

\* getCommit requested for this commit and the next one together
RequestDetailsAhead ==
    /\ pc = "analyze"
    /\ i < Len(commits)
    /\ WithinDetailBudget(i)
    /\ detailRequests' = detailRequests \o <<i, i + 1>>
    /\ pc' = "awaitDetail"
    /\ UNCHANGED <<otherVars, runVars, oracleVars, clock, fetchVars, commits, i, commitAnalyses,
                   authorStats, businessFeatures, detailFailed, response,
                   classifierVars, complexityVars>>

\* analyzeRepositoryData: i < 50, getCommit is requested
RequestDetails ==
    /\ pc = "analyze"
    /\ i < Len(commits)
    /\ WithinDetailBudget(i)
    /\ detailRequests' = Append(detailRequests, i)
    /\ pc' = "awaitDetail"
    /\ UNCHANGED <<otherVars, runVars, oracleVars, clock, fetchVars, commits, i, commitAnalyses,
                   authorStats, businessFeatures, detailFailed, response,
                   classifierVars, complexityVars>>

\* analyzeRepositoryData: getCommit returns
DetailsReturn ==
    /\ pc = "awaitDetail"
    /\ ~DetailThrowsFor(commits[i + 1].sha)
    /\ FinishIteration(StatsFromDetails(DetailOf(commits[i + 1].sha)))
    /\ UNCHANGED <<otherVars, runVars, oracleVars, fetchVars, commits, detailRequests, detailFailed,
                   response, classifierVars, complexityVars>>

\* getCommit throws and the error reaches the catch of GET
DetailsThrowPropagates ==
    /\ pc = "awaitDetail"
    /\ DetailThrowsFor(commits[i + 1].sha)
    /\ detailFailed' = detailFailed \cup {i}
    /\ response' = Some([status |-> 500, error |-> "Failed to analyze repository"])
    /\ pc' = "done"
    /\ UNCHANGED <<otherVars, runVars, oracleVars, clock, fetchVars, commits, i, commitAnalyses,
                   authorStats, businessFeatures, detailRequests,
                   classifierVars, complexityVars>>

\* analyzeRepositoryData: getCommit throws
DetailsThrow ==
    /\ pc = "awaitDetail"
    /\ DetailThrowsFor(commits[i + 1].sha)
    /\ detailFailed' = detailFailed \cup {i}
    /\ FinishIteration(EstimateAfterFailure(commits[i + 1].message))
    /\ UNCHANGED <<otherVars, runVars, oracleVars, fetchVars, commits, detailRequests, response,
                   classifierVars, complexityVars>>

\* analyzeRepositoryData: i >= 50, no request
EstimateIteration ==
    /\ pc = "analyze"
    /\ i < Len(commits)
    /\ ~WithinDetailBudget(i)
    /\ FinishIteration(EstimateOlder(commits[i + 1].message))
    /\ UNCHANGED <<otherVars, runVars, oracleVars, fetchVars, commits, detailRequests, detailFailed,
                   response, classifierVars, complexityVars>>

\* analyzeRepositoryData returns its result and GET responds with it
RespondAnalysis ==
    /\ pc = "analyze"
    /\ ~(i < Len(commits))
    /\ LET authorContributions ==
               [k \in 1..Len(Entries(authorStats)) |->
                   [author |-> authorStats[k].key,
                    commits |-> authorStats[k].value.commits,
                    linesChanged |-> authorStats[k].value.lines]]
           reversed == Reverse(commitAnalyses)
           complexityTrends ==
               [k \in 1..Len(reversed) |->
                   [date |-> reversed[k].date, complexity |-> reversed[k].complexity]]
           businessFeaturesArray ==
               [k \in 1..Len(Entries(businessFeatures)) |->
                   [feature |-> businessFeatures[k].key,
                    commits |-> businessFeatures[k].value.commits,
                    timeline |-> businessFeatures[k].value.timeline]]
       IN response' = Some([status |-> 200,
                            commits |-> Reverse(reversed),
                            complexityTrends |-> complexityTrends,
                            authorContributions |-> authorContributions,
                            businessFeatures |-> businessFeaturesArray,
                            fileOwnership |-> <<>>])
    /\ pc' = "done"
    /\ UNCHANGED <<otherVars, runVars, oracleVars, clock, fetchVars, analysisVars, classifierVars, complexityVars>>

Next ==
    \/ RespondInvalidId
    \/ VerifyRepository
    \/ RespondNotFound
    \/ EnterFetch
    \/ RequestPage
    \/ PageReturns
    \/ PageThrows
    \/ ReturnHistory
    \/ RequestDetails
    \/ DetailsReturn
    \/ DetailsThrow
    \/ EstimateIteration
    \/ RespondAnalysis

Spec == InitRoute /\ [][Next]_vars

----------------------------------------------------------------------------
(* The per-route analysis handlers: the hosted one lists a single page and  *)
(* fetches the details of every commit, the local one reads git log and     *)
(* estimates every commit; both keep the last points of complexityTrends    *)

RoutePerPage == 100
LocalMaxCount == 500
TrendWindow == 50

\* The window with one point more
SliceLastOneMore(seq, n) ==
    SubSeq(seq, Max(1, Len(seq) - n), Len(seq))

\* seq.slice(-n)
SliceLast(seq, n) ==
    SubSeq(seq, Max(1, Len(seq) - n + 1), Len(seq))

\* The entry of log.all for the k-th most recent commit of the clone
LocalCommit(k) ==
    [hash |-> k,
     date |-> DateOf(k),
     message |-> CorpusMessage(k),
     author_name |-> IF IsSome(RawCommit(k).authorName)
                     THEN TheValue(RawCommit(k).authorName)
                     ELSE "Grace"]

\* The response body built from the accumulators by a per-route handler
RouteResult ==
    LET reversed == Reverse(commitAnalyses)
    IN [status |-> 200,
        commits |-> Reverse(reversed),
        complexityTrends |->
            SliceLast([k \in 1..Len(reversed) |->
                          [date |-> reversed[k].date,
                           complexity |-> reversed[k].complexity]],
                      TrendWindow),
        authorContributions |->
            [k \in 1..Len(Entries(authorStats)) |->
                [author |-> authorStats[k].key,
                 commits |-> authorStats[k].value.commits,
                 linesChanged |-> authorStats[k].value.lines]],
        businessFeatures |->
            [k \in 1..Len(Entries(businessFeatures)) |->
                [feature |-> businessFeatures[k].key,
                 commits |-> businessFeatures[k].value.commits,
                 timeline |-> businessFeatures[k].value.timeline]],
        fileOwnership |-> <<>>]

\* hosted handler: the repository id does not parse
RouteRespondInvalidId ==
    /\ pc = "routeStart"
    /\ parseRepoId(repoId) = None
    /\ response' = Some([status |-> 400, error |-> "Invalid repository ID format"])
    /\ pc' = "routeDone"
    /\ UNCHANGED <<otherVars, runVars, oracleVars, clock, fetchVars, analysisVars, classifierVars, complexityVars>>

\* hosted handler: the id parses and repos.get is requested
RouteVerifyRepository ==
    /\ pc = "routeStart"
    /\ parseRepoId(repoId) # None
    /\ pc' = "routeVerify"
    /\ UNCHANGED <<otherVars, runVars, oracleVars, clock, fetchVars, analysisVars, response,
                   classifierVars, complexityVars>>

\* hosted handler: repos.get throws
RouteRespondNotFound ==
    /\ pc = "routeVerify"
    /\ ~repoExists
    /\ response' = Some([status |-> 404, error |-> "Repository not found"])
    /\ pc' = "routeDone"
    /\ UNCHANGED <<otherVars, runVars, oracleVars, clock, fetchVars, analysisVars, classifierVars, complexityVars>>

\* hosted handler: repos.get returns and the one listCommits request is made
RouteRequestList ==
    /\ pc = "routeVerify"
    /\ repoExists
    /\ pageRequests' = Append(pageRequests, 1)
    /\ pc' = "routeAwaitList"
    /\ UNCHANGED <<otherVars, runVars, oracleVars, clock, allCommits, page, hasMore, historyFailed,
                   analysisVars, response, classifierVars, complexityVars>>

\* hosted handler: listCommits returns the most recent commits
RouteListReturns ==
    /\ pc = "routeAwaitList"
    /\ pageFailAt # 1
    /\ commits' = [k \in 1..Min(RoutePerPage, repoSize) |-> RawCommit(k)]
    /\ i' = 0
    /\ commitAnalyses' = <<>>
    /\ authorStats' = <<>>
    /\ businessFeatures' = <<>>
    /\ pc' = "routeLoop"
    /\ UNCHANGED <<otherVars, runVars, oracleVars, clock, fetchVars, detailRequests, detailFailed,
                   response, classifierVars, complexityVars>>

\* hosted handler: listCommits throws and the outer catch answers
RouteListThrows ==
    /\ pc = "routeAwaitList"
    /\ pageFailAt = 1
    /\ historyFailed' = TRUE
    /\ response' = Some([status |-> 500, error |-> "Failed to analyze repository"])
    /\ pc' = "routeDone"
    /\ UNCHANGED <<otherVars, runVars, oracleVars, clock, allCommits, page, hasMore, pageRequests,
                   analysisVars, classifierVars, complexityVars>>

\* hosted handler: getCommit is requested for the commit of this iteration
RouteRequestDetails ==
    /\ pc = "routeLoop"
    /\ i < Len(commits)
    /\ detailRequests' = Append(detailRequests, i)
    /\ pc' = "routeAwaitDetail"
    /\ UNCHANGED <<otherVars, runVars, oracleVars, clock, fetchVars, commits, i, commitAnalyses,
                   authorStats, businessFeatures, detailFailed, response,
                   classifierVars, complexityVars>>

\* hosted handler: the rest of one loop iteration
RouteFinishIteration(signals) ==
    LET commit == commits[i + 1]
        businessFeature == extractBusinessFeature(commit.message)
        dated == IsSome(commit.authorDate)
    IN \E tick1 \in 0..1, tick2 \in 0..1 :
        /\ dated => (tick1 = 0 /\ tick2 = 0)
        /\ clock + tick1 + tick2 <= ClockStart + MaxTicks
        /\ LET date == IF dated THEN TheValue(commit.authorDate) ELSE clock + tick1
               timelineDate == IF dated THEN TheValue(commit.authorDate)
                               ELSE clock + tick1 + tick2
               commitAnalysis == CommitAnalysisOf(commit, signals, date)
           IN /\ commitAnalyses' = Append(commitAnalyses, commitAnalysis)
              /\ authorStats' = AddAuthor(authorStats, commitAnalysis.author,
                                          signals.insertions + signals.deletions)
              /\ businessFeatures' = AddFeature(businessFeatures, businessFeature,
                                                commit.sha, timelineDate)
              /\ clock' = clock + tick1 + tick2
        /\ i' = i + 1
        /\ pc' = "routeLoop"

\* hosted handler: getCommit returns
RouteDetailsReturn ==
    /\ pc = "routeAwaitDetail"
    /\ ~DetailThrowsFor(commits[i + 1].sha)
    /\ RouteFinishIteration(StatsFromDetails(DetailOf(commits[i + 1].sha)))
    /\ UNCHANGED <<otherVars, runVars, oracleVars, fetchVars, commits, detailRequests, detailFailed,
                   response, classifierVars, complexityVars>>

\* hosted handler: getCommit throws, the catch estimates from the message
RouteDetailsThrow ==
    /\ pc = "routeAwaitDetail"
    /\ DetailThrowsFor(commits[i + 1].sha)
    /\ detailFailed' = detailFailed \cup {i}
    /\ RouteFinishIteration(EstimateAfterFailure(commits[i + 1].message))
    /\ UNCHANGED <<otherVars, runVars, oracleVars, fetchVars, commits, detailRequests, response,
                   classifierVars, complexityVars>>

\* hosted handler: the loop is over, the result is built and returned
RouteRespondAnalysis ==
    /\ pc = "routeLoop"
    /\ ~(i < Len(commits))
    /\ response' = Some(RouteResult)
    /\ pc' = "routeDone"
    /\ UNCHANGED <<otherVars, runVars, oracleVars, clock, fetchVars, analysisVars, classifierVars, complexityVars>>

\* local handler: fs.access throws
LocalRespondNotFound ==
    /\ pc = "localStart"
    /\ ~repoExists
    /\ response' = Some([status |-> 404, error |-> "Repository not found"])
    /\ pc' = "localDone"
    /\ UNCHANGED <<otherVars, runVars, oracleVars, clock, fetchVars, analysisVars, classifierVars, complexityVars>>

\* local handler: the clone is there and git.log is requested
LocalRequestLog ==
    /\ pc = "localStart"
    /\ repoExists
    /\ pc' = "localAwaitLog"
    /\ UNCHANGED <<otherVars, runVars, oracleVars, clock, fetchVars, analysisVars, response,
                   classifierVars, complexityVars>>

\* local handler: git.log returns at most maxCount commits
LocalLogReturns ==
    /\ pc = "localAwaitLog"
    /\ pageFailAt # 1
    /\ commits' = [k \in 1..Min(LocalMaxCount, repoSize) |-> LocalCommit(k)]
    /\ i' = 0
    /\ commitAnalyses' = <<>>
    /\ authorStats' = <<>>
    /\ businessFeatures' = <<>>
    /\ pc' = "localLoop"
    /\ UNCHANGED <<otherVars, runVars, oracleVars, clock, fetchVars, detailRequests, detailFailed,
                   response, classifierVars, complexityVars>>

\* local handler: git.log throws and the outer catch answers
LocalLogThrows ==
    /\ pc = "localAwaitLog"
    /\ pageFailAt = 1
    /\ historyFailed' = TRUE
    /\ response' = Some([status |-> 500, error |-> "Failed to analyze repository"])
    /\ pc' = "localDone"
    /\ UNCHANGED <<otherVars, runVars, oracleVars, clock, allCommits, page, hasMore, pageRequests,
                   analysisVars, classifierVars, complexityVars>>

\* local handler: one loop iteration, every commit estimated from its message
LocalIteration ==
    /\ pc = "localLoop"
    /\ i < Len(commits)
    /\ LET commit == commits[i + 1]
           classified == categorizeCommit(commit.message)
           businessFeature == extractBusinessFeature(commit.message)
           signals == EstimateOlder(commit.message)
           commitAnalysis ==
               [hash |-> commit.hash,
                date |-> commit.date,
                author |-> commit.author_name,
                message |-> commit.message,
                filesChanged |-> signals.filesChanged,
                insertions |-> signals.insertions,
                deletions |-> signals.deletions,
                complexity |-> calculateComplexity([files |-> Some(signals.filesChanged),
                                                    insertions |-> Some(signals.insertions),
                                                    deletions |-> Some(signals.deletions)]),
                semanticCategory |-> classified.category,
                businessImpact |-> classified.impact]
       IN /\ commitAnalyses' = Append(commitAnalyses, commitAnalysis)
          /\ authorStats' = AddAuthor(authorStats, commit.author_name,
                                      signals.insertions + signals.deletions)
          /\ businessFeatures' = AddFeature(businessFeatures, businessFeature,
                                            commit.hash, commit.date)
    /\ i' = i + 1
    /\ UNCHANGED <<pc, otherVars, runVars, oracleVars, clock, fetchVars, commits, detailRequests,
                   detailFailed, response, classifierVars, complexityVars>>

\* local handler: the loop is over, the result is built and returned
LocalRespondAnalysis ==
    /\ pc = "localLoop"
    /\ ~(i < Len(commits))
    /\ response' = Some(RouteResult)
    /\ pc' = "localDone"
    /\ UNCHANGED <<otherVars, runVars, oracleVars, clock, fetchVars, analysisVars, classifierVars, complexityVars>>

InitHandlers == pc \in {"start", "routeStart", "localStart"} /\ InitRouteData

NextHandlers ==
    \/ Next
    \/ RouteRespondInvalidId
    \/ RouteVerifyRepository
    \/ RouteRespondNotFound
    \/ RouteRequestList
    \/ RouteListReturns
    \/ RouteListThrows
    \/ RouteRequestDetails
    \/ RouteDetailsReturn
    \/ RouteDetailsThrow
    \/ RouteRespondAnalysis
    \/ LocalRespondNotFound
    \/ LocalRequestLog
    \/ LocalLogReturns
    \/ LocalLogThrows
    \/ LocalIteration
    \/ LocalRespondAnalysis

SpecHandlers == InitHandlers /\ [][NextHandlers]_vars

----------------------------------------------------------------------------
(* Two calls of analyzeRepositoryData side by side: each call has its own   *)
(* locals, the calls interleave at the awaits of getCommit and share only   *)
(* the hosted source and the wall clock                                     *)

RunArguments == {<<1, 3>>, <<2, 2>>, <<1, DetailBudget + 1>>}
RunRepoSizes == {0, 3, DetailBudget + 1}
RunDetailFailures == {0, 2}

\* The commits argument of call r
RunCommits(r) ==
    [k \in 1..runInputs[r][2] |-> RawCommit(runInputs[r][1] + k - 1)]

\* A call that starts from what the other call has accumulated
AccumulatorsLeftBehind(r) ==
    [commitAnalyses |-> runs[3 - r].commitAnalyses,
     authorStats |-> runs[3 - r].authorStats,
     businessFeatures |-> runs[3 - r].businessFeatures]

\* The accumulators declared at the start of a call
FreshAccumulators(r) ==
    [commitAnalyses |-> <<>>, authorStats |-> <<>>, businessFeatures |-> <<>>]

\* Every call reading the accumulators of the first call
AccumulatorsOfFirstRun(r) ==
    [commitAnalyses |-> runs[1].commitAnalyses,
     authorStats |-> runs[1].authorStats,
     businessFeatures |-> runs[1].businessFeatures]

\* The accumulators an iteration of call r reads and updates: its own locals
AccumulatorsOf(r) ==
    [commitAnalyses |-> runs[r].commitAnalyses,
     authorStats |-> runs[r].authorStats,
     businessFeatures |-> runs[r].businessFeatures]

\* The value analyzeRepositoryData returns for its accumulators
AnalysisResultOf(acc) ==
    LET reversed == Reverse(acc.commitAnalyses)
    IN [commits |-> Reverse(reversed),
        fileOwnership |-> <<>>,
        complexityTrends |->
            [k \in 1..Len(reversed) |->
                [date |-> reversed[k].date, complexity |-> reversed[k].complexity]],
        authorContributions |->
            [k \in 1..Len(Entries(acc.authorStats)) |->
                [author |-> acc.authorStats[k].key,
                 commits |-> acc.authorStats[k].value.commits,
                 linesChanged |-> acc.authorStats[k].value.lines]],
        businessFeatures |->
            [k \in 1..Len(Entries(acc.businessFeatures)) |->
                [feature |-> acc.businessFeatures[k].key,
                 commits |-> acc.businessFeatures[k].value.commits,
                 timeline |-> acc.businessFeatures[k].value.timeline]]]

\* One commit added to the accumulators acc
Accumulate(acc, commit, signals, date, timelineDate) ==
    LET commitAnalysis == CommitAnalysisOf(commit, signals, date)
    IN [commitAnalyses |-> Append(acc.commitAnalyses, commitAnalysis),
        authorStats |-> AddAuthor(acc.authorStats, commitAnalysis.author,
                                  signals.insertions + signals.deletions),
        businessFeatures |-> AddFeature(acc.businessFeatures,
                                        extractBusinessFeature(commit.message),
                                        commit.sha, timelineDate)]

InitCalls ==
    /\ pc = "runs"
    /\ OthersIdle
    /\ runInputs \in [RunIds -> RunArguments]
    /\ runs = [r \in RunIds |-> IdleRun]
    /\ repoId = ""
    /\ repoSize \in RunRepoSizes
    /\ repoExists = TRUE
    /\ pageFailAt = 0
    /\ detailFailEvery \in RunDetailFailures
    /\ clock = ClockStart
    /\ allCommits = <<>>
    /\ page = 1
    /\ hasMore = TRUE
    /\ pageRequests = <<>>
    /\ historyFailed = FALSE
    /\ commits = <<>>
    /\ i = 0
    /\ commitAnalyses = <<>>
    /\ authorStats = <<>>
    /\ businessFeatures = <<>>
    /\ detailRequests = <<>>
    /\ detailFailed = {}
    /\ response = None
    /\ ClassifierIdle
    /\ ComplexityIdle

handlerVars == <<otherVars, pc, oracleVars, fetchVars, analysisVars, response,
                 classifierVars, complexityVars>>

\* call r is made: its accumulators are declared
BeginRun(r) ==
    /\ runs[r].pc = "idle"
    /\ LET acc == FreshAccumulators(r)
       IN runs' = [runs EXCEPT ![r] =
                      [@ EXCEPT !.pc = "analyze",
                                !.i = 0,
                                !.commitAnalyses = acc.commitAnalyses,
                                !.authorStats = acc.authorStats,
                                !.businessFeatures = acc.businessFeatures]]
    /\ UNCHANGED <<handlerVars, clock, runInputs>>

\* call r: i < 50, getCommit is requested
RunRequestDetails(r) ==
    /\ runs[r].pc = "analyze"
    /\ runs[r].i < Len(RunCommits(r))
    /\ WithinDetailBudget(runs[r].i)
    /\ runs' = [runs EXCEPT ![r] =
                   [@ EXCEPT !.pc = "awaitDetail",
                             !.detailRequests = Append(@, runs[r].i)]]
    /\ UNCHANGED <<handlerVars, clock, runInputs>>

\* call r: the rest of one loop iteration
RunFinishIteration(r, signals) ==
    LET commit == RunCommits(r)[runs[r].i + 1]
        dated == IsSome(commit.authorDate)
    IN \E tick1 \in 0..1, tick2 \in 0..1 :
        /\ dated => (tick1 = 0 /\ tick2 = 0)
        /\ clock + tick1 + tick2 <= ClockStart + MaxTicks
        /\ LET date == IF dated THEN TheValue(commit.authorDate) ELSE clock + tick1
               timelineDate == IF dated THEN TheValue(commit.authorDate)
                               ELSE clock + tick1 + tick2
               acc == Accumulate(AccumulatorsOf(r), commit, signals, date, timelineDate)
           IN runs' = [runs EXCEPT ![r] =
                          [@ EXCEPT !.pc = "analyze",
                                    !.i = @ + 1,
                                    !.commitAnalyses = acc.commitAnalyses,
                                    !.authorStats = acc.authorStats,
                                    !.businessFeatures = acc.businessFeatures,
                                    !.clockReads = Append(@, <<date, timelineDate>>)]]
        /\ clock' = clock + tick1 + tick2

\* call r: getCommit returns
RunDetailsReturn(r) ==
    /\ runs[r].pc = "awaitDetail"
    /\ LET sha == RunCommits(r)[runs[r].i + 1].sha
       IN /\ ~DetailThrowsFor(sha)
          /\ RunFinishIteration(r, StatsFromDetails(DetailOf(sha)))
    /\ UNCHANGED <<handlerVars, runInputs>>

\* call r: getCommit throws
RunDetailsThrow(r) ==
    /\ runs[r].pc = "awaitDetail"
    /\ LET commit == RunCommits(r)[runs[r].i + 1]
       IN /\ DetailThrowsFor(commit.sha)
          /\ RunFinishIteration(r, EstimateAfterFailure(commit.message))
    /\ UNCHANGED <<handlerVars, runInputs>>

\* call r: i >= 50, no request
RunEstimateIteration(r) ==
    /\ runs[r].pc = "analyze"
    /\ runs[r].i < Len(RunCommits(r))
    /\ ~WithinDetailBudget(runs[r].i)
    /\ RunFinishIteration(r, EstimateOlder(RunCommits(r)[runs[r].i + 1].message))
    /\ UNCHANGED <<handlerVars, runInputs>>

\* call r returns its result
RunReturn(r) ==
    /\ runs[r].pc = "analyze"
    /\ ~(runs[r].i < Len(RunCommits(r)))
    /\ runs' = [runs EXCEPT ![r] =
                   [@ EXCEPT !.pc = "returned",
                             !.result = Some(AnalysisResultOf(AccumulatorsOf(r)))]]
    /\ UNCHANGED <<handlerVars, clock, runInputs>>

\* Two calls on different arguments, at most one of them beyond the detail budget
InitRuns ==
    /\ InitCalls
    /\ runInputs[1] # runInputs[2]
    /\ runInputs[1][2] <= DetailBudget \/ runInputs[2][2] <= DetailBudget

BeginFirstRun == BeginRun(1)

\* the second call is made while the first has not returned
BeginOverlappingRun ==
    /\ runs[1].pc \in {"analyze", "awaitDetail"}
    /\ BeginRun(2)

NextRuns ==
    \/ BeginFirstRun
    \/ BeginOverlappingRun
    \/ \E r \in RunIds :
          \/ RunRequestDetails(r)
          \/ RunDetailsReturn(r)
          \/ RunDetailsThrow(r)
          \/ RunEstimateIteration(r)
          \/ RunReturn(r)

SpecRuns == InitRuns /\ [][NextRuns]_vars

\* The same call made twice, the second after the first has returned
InitRepeat ==
    /\ InitCalls
    /\ runInputs[1] = runInputs[2]

BeginNextRun ==
    /\ runs[1].pc = "returned"
    /\ BeginRun(2)

NextRepeat ==
    \/ BeginFirstRun
    \/ BeginNextRun
    \/ \E r \in RunIds :
          \/ RunRequestDetails(r)
          \/ RunDetailsReturn(r)
          \/ RunDetailsThrow(r)
          \/ RunEstimateIteration(r)
          \/ RunReturn(r)

SpecRepeat == InitRepeat /\ [][NextRepeat]_vars

----------------------------------------------------------------------------
(* Rule tables of the classifier as documented, and case-insensitive       *)
(* occurrence stated on the message itself                                 *)

CategoryRules ==
    << [triggers |-> {"feat", "feature", "add"}, category |-> "feature", impact |-> "enhancement"],
       [triggers |-> {"fix", "bug"}, category |-> "bugfix", impact |-> "stability"],
       [triggers |-> {"refactor", "clean"}, category |-> "refactor", impact |-> "technical debt"],
       [triggers |-> {"test", "spec"}, category |-> "testing", impact |-> "quality"],
       [triggers |-> {"doc", "readme"}, category |-> "documentation", impact |-> "usability"],
       [triggers |-> {"perf", "optimize"}, category |-> "performance", impact |-> "performance"],
       [triggers |-> {"security", "auth"}, category |-> "security", impact |-> "security"] >>

FeatureRules ==
    << [triggers |-> {"auth", "login", "signup"}, feature |-> "Authentication"],
       [triggers |-> {"user", "profile"}, feature |-> "User Management"],
       [triggers |-> {"api", "endpoint"}, feature |-> "API Development"],
       [triggers |-> {"ui", "frontend", "component"}, feature |-> "UI/UX"],
       [triggers |-> {"database", "db", "migration"}, feature |-> "Database"],
       [triggers |-> {"deploy", "ci", "build"}, feature |-> "DevOps"],
       [triggers |-> {"test", "spec"}, feature |-> "Testing"],
       [triggers |-> {"doc", "readme"}, feature |-> "Documentation"] >>

FeatureBuckets ==
    {"Authentication", "User Management", "API Development", "UI/UX", "Database",
     "DevOps", "Testing", "Documentation", "Core Development"}

CategoryImpactTable ==
    {<<"feature", "enhancement">>, <<"bugfix", "stability">>,
     <<"refactor", "technical debt">>, <<"testing", "quality">>,
     <<"documentation", "usability">>, <<"performance", "performance">>,
     <<"security", "security">>, <<"other", "maintenance">>}

UpperChar(c) ==
    CASE c = "a" -> "A" [] c = "b" -> "B" [] c = "c" -> "C" [] c = "d" -> "D"
      [] c = "e" -> "E" [] c = "f" -> "F" [] c = "g" -> "G" [] c = "h" -> "H"
      [] c = "i" -> "I" [] c = "j" -> "J" [] c = "k" -> "K" [] c = "l" -> "L"
      [] c = "m" -> "M" [] c = "n" -> "N" [] c = "o" -> "O" [] c = "p" -> "P"
      [] c = "q" -> "Q" [] c = "r" -> "R" [] c = "s" -> "S" [] c = "t" -> "T"
      [] c = "u" -> "U" [] c = "v" -> "V" [] c = "w" -> "W" [] c = "x" -> "X"
      [] c = "y" -> "Y" [] c = "z" -> "Z" [] OTHER -> c

\* The lower-case word t occurs in s at some position, in any mix of cases
OccursIgnoringCase(t, s) ==
    \E p \in 1..(Len(s) - Len(t) + 1) :
        \A k \in 1..Len(t) :
            LET c == SubSeq(s, p + k - 1, p + k - 1)
                d == SubSeq(t, k, k)
            IN c = d \/ c = UpperChar(d)

RuleHits(rules, m) ==
    {r \in 1..Len(rules) : \E t \in rules[r].triggers : OccursIgnoringCase(t, m)}

Least(hits) == CHOOSE r \in hits : \A q \in hits : r <= q

----------------------------------------------------------------------------
(* Claims about the classifier, under SpecClassifier *)

\* C1: categorizeCommit returns the (category, impact) of the first rule, in the
\* order feature, bugfix, refactor, testing, documentation, performance,
\* security, one of whose triggers occurs in the message ignoring case; a
\* message with both "fix" and "feat" is a feature.
C1_FirstCategoryRuleWins ==
    \A result \in catResult :
        /\ LET hits == RuleHits(CategoryRules, message)
           IN hits # {} =>
                 /\ result.category = CategoryRules[Least(hits)].category
                 /\ result.impact = CategoryRules[Least(hits)].impact
        /\ (OccursIgnoringCase("fix", message) /\ OccursIgnoringCase("feat", message)) =>
              result.category = "feature"

C1_Witness ==
    /\ catResult = Some([category |-> "feature", impact |-> "enhancement"])
    /\ OccursIgnoringCase("fix", message)
    /\ OccursIgnoringCase("feat", message)

\* C2: a message with none of the trigger substrings (the empty message
\* included) is classified (other, maintenance) and Core Development.
C2_DefaultsWithoutTrigger ==
    (catResult # None \/ featResult # None) =>
        ((RuleHits(CategoryRules, message) = {} /\ RuleHits(FeatureRules, message) = {}) =>
            /\ \A result \in catResult : result = [category |-> "other", impact |-> "maintenance"]
            /\ \A feature \in featResult : feature = "Core Development")

C2_Witness ==
    /\ RuleHits(CategoryRules, message) = {}
    /\ RuleHits(FeatureRules, message) = {}
    /\ Len(message) > 0
    /\ catResult = Some([category |-> "other", impact |-> "maintenance"])
    /\ featResult = Some("Core Development")

\* C3: extractBusinessFeature returns the bucket of the first rule, in the order
\* Authentication, User Management, API Development, UI/UX, Database, DevOps,
\* Testing, Documentation, one of whose triggers occurs in the message ignoring
\* case, whatever category the message has; the result is one of nine buckets.
C3_FirstFeatureRuleWins ==
    \A feature \in featResult :
        /\ feature \in FeatureBuckets
        /\ LET hits == RuleHits(FeatureRules, message)
           IN hits # {} => feature = FeatureRules[Least(hits)].feature

\* "build" holds the UI/UX trigger "ui" and the DevOps trigger "build"; the
\* category of the same message comes from another rule list
C3_Witness ==
    /\ featResult = Some("UI/UX")
    /\ OccursIgnoringCase("build", message)
    /\ \E result \in catResult : result.category = "bugfix"

----------------------------------------------------------------------------
(* Claims about the complexity scorer, under SpecScoring: calculateComplexity *)
(* called directly, and called by the route                                   *)

NextScoring == NextComplexity \/ Next

SpecScoring == (InitComplexity \/ InitRoute) /\ [][NextScoring]_vars

AllZeroOrMissing(stats) ==
    /\ stats.files \in {None, Some(0)}
    /\ stats.insertions \in {None, Some(0)}
    /\ stats.deletions \in {None, Some(0)}

\* a <= b for optional signals, a missing one counting as 0
OptLeq(a, b) ==
    (IF a = None THEN 0 ELSE TheValue(a)) <= (IF b = None THEN 0 ELSE TheValue(b))

\* C5: the score is 0 (carried as 1) for zero or missing signals, does not
\* decrease when a signal grows, and never exceeds 100 (carried as ExpCap), so
\* every complexity in a result lies in [0, 100].
C5_ScoreZeroMonotoneCapped ==
    /\ \A a \in scoreA : AllZeroOrMissing(statsA) => a = 1
    /\ \A a \in scoreA \cup scoreB : 1 <= a /\ a <= ExpCap
    /\ \A a \in scoreA : \A b \in scoreB :
          (/\ OptLeq(statsA.files, statsB.files)
           /\ OptLeq(statsA.insertions, statsB.insertions)
           /\ OptLeq(statsA.deletions, statsB.deletions)) => a <= b
    /\ \A k \in 1..Len(commitAnalyses) :
          1 <= commitAnalyses[k].complexity /\ commitAnalyses[k].complexity <= ExpCap
    /\ \A r \in response : r.status = 200 =>
          /\ \A k \in 1..Len(r.commits) :
                1 <= r.commits[k].complexity /\ r.commits[k].complexity <= ExpCap
          /\ \A k \in 1..Len(r.complexityTrends) :
                1 <= r.complexityTrends[k].complexity /\ r.complexityTrends[k].complexity <= ExpCap

\* a capped score above an uncapped one, the larger input differing in files only
C5_Witness ==
    /\ scoreB = Some(ExpCap)
    /\ \E a \in scoreA : a < ExpCap /\ a > 1
    /\ statsA.files # statsB.files
    /\ OptLeq(statsA.files, statsB.files)
    /\ statsA.insertions = statsB.insertions
    /\ statsA.deletions = statsB.deletions

----------------------------------------------------------------------------
(* Claims about the hosted analysis route, under Spec *)

\* The estimation as documented, from the message length
DocumentedEstimate(m) ==
    [filesChanged |-> IF Len(m) \div 50 > 1 THEN Len(m) \div 50 ELSE 1,
     insertions |-> IF Len(m) \div 10 > 5 THEN Len(m) \div 10 ELSE 5,
     deletions |-> IF Len(m) \div 20 > 0 THEN Len(m) \div 20 ELSE 0]

SignalsOf(analysis) ==
    [filesChanged |-> analysis.filesChanged,
     insertions |-> analysis.insertions,
     deletions |-> analysis.deletions]

\* C4: in every commit of every analysis result, (semanticCategory,
\* businessImpact) is one of the eight pairs of the mapping table.
C4_CategoryImpactConsistent ==
    /\ \A k \in 1..Len(commitAnalyses) :
          <<commitAnalyses[k].semanticCategory, commitAnalyses[k].businessImpact>>
              \in CategoryImpactTable
    /\ \A r \in response : r.status = 200 =>
          \A k \in 1..Len(r.commits) :
              <<r.commits[k].semanticCategory, r.commits[k].businessImpact>>
                  \in CategoryImpactTable

\* a result in which every pair of the table occurs
C4_Witness ==
    \E r \in response :
        /\ r.status = 200
        /\ \A pair \in CategoryImpactTable :
              \E k \in 1..Len(r.commits) :
                  <<r.commits[k].semanticCategory, r.commits[k].businessImpact>> = pair

\* C6: a detail fetch is requested for each commit at index 0..49, once and in
\* order, and for no commit at index 50 or above, whose signals are the
\* estimation whether or not its fetch would succeed; a run over n commits
\* issues min(n, 50) detail fetches.
C6_DetailBudget ==
    /\ \A j \in 1..Len(detailRequests) : detailRequests[j] = j - 1 /\ j - 1 < 50
    /\ pc \in {"analyze", "done"} =>
          Len(detailRequests) = (IF i < 50 THEN i ELSE 50)
    /\ pc = "awaitDetail" => Len(detailRequests) = i + 1
    /\ \A r \in response : r.status = 200 =>
          Len(detailRequests) = (IF Len(commits) < 50 THEN Len(commits) ELSE 50)
    /\ \A k \in 51..Len(commitAnalyses) :
          SignalsOf(commitAnalyses[k]) = DocumentedEstimate(commits[k].message)

\* a finished run over more than 50 commits in which the fetch for the commit at
\* index 50 would have succeeded, and that for the commit at index 49 was made
C6_Witness ==
    /\ pc = "done"
    /\ Len(commits) > 50
    /\ Len(detailRequests) = 50
    /\ ~DetailThrowsFor(commits[51].sha)
    /\ SignalsOf(commitAnalyses[51]) # StatsFromDetails(DetailOf(commits[51].sha))

\* C7: a failed detail fetch does not abort the run and is not propagated: the
\* commit gets the estimated signals, the commits whose fetch succeeded keep the
\* fetched signals, the run goes on and its result covers every input commit.
C7_FailedDetailFetchIsLocal ==
    /\ \A idx \in detailFailed :
          /\ idx < Len(commitAnalyses)
          /\ SignalsOf(commitAnalyses[idx + 1]) = DocumentedEstimate(commits[idx + 1].message)
    /\ \A k \in 1..Len(commitAnalyses) :
          /\ commitAnalyses[k].hash = commits[k].sha
          /\ (k - 1 < 50 /\ (k - 1) \notin detailFailed) =>
                LET details == DetailOf(commits[k].sha)
                IN /\ commitAnalyses[k].filesChanged = OrZero(details.files)
                   /\ commitAnalyses[k].insertions = OrZero(details.additions)
                   /\ commitAnalyses[k].deletions = OrZero(details.deletions)
    /\ (pc = "done" /\ detailFailed # {}) =>
          \E r \in response :
              /\ r.status = 200
              /\ Len(r.commits) = Len(commits)
              /\ {r.commits[k].hash : k \in 1..Len(r.commits)}
                    = {commits[k].sha : k \in 1..Len(commits)}
    /\ (pc # "done" /\ detailFailed # {}) =>
          /\ pc = "analyze" \/ (pc = "awaitDetail" /\ i < Len(commits))
          /\ response = None

\* a finished run in which some detail fetches failed and others succeeded
C7_Witness ==
    /\ pc = "done"
    /\ detailFailed # {}
    /\ \E idx \in 0..(Len(commits) - 1) : idx < 50 /\ idx \notin detailFailed
    /\ \E r \in response : r.status = 200 /\ Len(r.commits) = Len(commits)

\* C8: whenever estimation is used (index at or beyond the budget, or a failed
\* detail fetch) the signals are max(1, floor(len/50)), max(5, floor(len/10)),
\* max(0, floor(len/20)) of the message length, on both paths alike.
C8_EstimationFormula ==
    \A k \in 1..Len(commitAnalyses) :
        (k - 1 >= 50 \/ (k - 1) \in detailFailed) =>
            SignalsOf(commitAnalyses[k]) = DocumentedEstimate(commitAnalyses[k].message)

\* the same message of 100 characters or more estimated on both paths: after a
\* failed fetch at index 5 and beyond the budget at index 57
C8_Witness ==
    /\ 5 \in detailFailed
    /\ Len(commitAnalyses) >= 58
    /\ commitAnalyses[6].message = commitAnalyses[58].message
    /\ Len(commitAnalyses[6].message) >= 100
    /\ SignalsOf(commitAnalyses[6]) = SignalsOf(commitAnalyses[58])
    /\ commitAnalyses[6].filesChanged > 1

\* C9: fetchCompleteCommitHistory never accumulates or returns more than 1000
\* commits, however many the source holds.
C9_VolumeCeiling ==
    /\ Len(allCommits) <= 1000
    /\ Len(commits) <= 1000

\* the history of a repository of more than 1000 commits returned with 1000
C9_Witness ==
    /\ repoSize > 1000
    /\ pc = "analyze"
    /\ Len(commits) = 1000
    /\ ~historyFailed

\* C10: when a listCommits request has thrown, the run ends with an error and no
\* result is returned.
C10_HistoryFailureIsTerminal ==
    historyFailed => \A r \in response : r.status # 200

----------------------------------------------------------------------------
(* The result of analyzeRepositoryData: orders and projections              *)

\* The result carried by a 200 response, if there is one
Results == {r \in response : r.status = 200}

\* C11: the raw commits being given newest first, the commits of the result are
\* in chronological order, oldest first: position k of the result holds the
\* commit at position n + 1 - k of the input.
C11_CommitsOldestFirst ==
    \A r \in Results :
        /\ Len(r.commits) = Len(commits)
        /\ \A k \in 1..Len(commits) :
              r.commits[k].hash = commits[Len(commits) + 1 - k].sha

\* C12: complexityTrends is in the same order as commits: point k carries the
\* date and the complexity of commits[k].
C12_TrendsAlignedWithCommits ==
    \A r \in Results :
        /\ Len(r.complexityTrends) = Len(r.commits)
        /\ \A k \in 1..Len(r.commits) :
              /\ r.complexityTrends[k].date = r.commits[k].date
              /\ r.complexityTrends[k].complexity = r.commits[k].complexity

\* The handler that has answered: the shared analyzeRepositoryData behind GET,
\* or one of the per-route handlers
AnsweredBy(handler) ==
    pc = CASE handler = "shared" -> "done"
           [] handler = "hosted" -> "routeDone"
           [] handler = "local" -> "localDone"

\* C13 as stated: in every result, of the shared analyzeRepositoryData and of each
\* per-route handler, commits has one entry and complexityTrends one point per
\* processed commit.
C13_NoTruncationAnywhere ==
    \A r \in Results :
        /\ Len(r.commits) = Len(commits)
        /\ Len(r.complexityTrends) = Len(commits)

\* C13 amended: every result has one commits entry per processed commit; the
\* shared analyzeRepositoryData has one complexityTrends point per commit, and
\* each per-route handler keeps the points of the 50 most recent commits only.
C13_TruncationOnlyInRouteTrends ==
    \A r \in Results :
        /\ Len(r.commits) = Len(commits)
        /\ \A k \in 1..Len(commits) :
              r.commits[k].hash = commitAnalyses[k].hash
        /\ AnsweredBy("shared") =>
              Len(r.complexityTrends) = Len(commits)
        /\ ~AnsweredBy("shared") =>
              /\ Len(r.complexityTrends) = Min(50, Len(commits))
              /\ \A k \in 1..Len(r.complexityTrends) :
                    LET c == commitAnalyses[Len(r.complexityTrends) + 1 - k]
                    IN r.complexityTrends[k] = [date |-> c.date, complexity |-> c.complexity]

\* the local handler has answered for more than 50 commits, with 50 trend points
C13_Witness ==
    \E r \in Results :
        /\ Len(commits) > 50
        /\ AnsweredBy("local")
        /\ Len(r.complexityTrends) = 50
        /\ Len(r.commits) = Len(commits)

RECURSIVE SumRange(_, _, _)
\* The sum of the numbers seq[lo..hi]
SumRange(seq, lo, hi) ==
    IF lo > hi THEN 0
    ELSE IF lo = hi THEN seq[lo]
    ELSE LET mid == (lo + hi) \div 2
         IN SumRange(seq, lo, mid) + SumRange(seq, mid + 1, hi)

Sum(seq) == SumRange(seq, 1, Len(seq))

\* Lines changed by the commits of one author in a result
LinesOfAuthor(r, author) ==
    Sum([k \in 1..Len(r.commits) |->
            IF r.commits[k].author = author
            THEN r.commits[k].insertions + r.commits[k].deletions
            ELSE 0])

\* C14: authorContributions has exactly one entry per distinct author name among
\* the processed commits, the commit counts of the entries sum to the number of
\* processed commits, and linesChanged of an entry is the sum of insertions +
\* deletions over the commits of its author.
C14_AuthorContributionsPartition ==
    \A r \in Results :
        LET authors == {r.commits[k].author : k \in 1..Len(r.commits)}
            entries == r.authorContributions
        IN /\ {entries[k].author : k \in 1..Len(entries)} = authors
           /\ Len(entries) = Cardinality(authors)
           /\ Sum([k \in 1..Len(entries) |-> entries[k].commits]) = Len(r.commits)
           /\ \A k \in 1..Len(entries) :
                 entries[k].linesChanged = LinesOfAuthor(r, entries[k].author)

\* C15: businessFeatures has exactly one entry per distinct feature bucket among
\* the processed commits, and the hash of every processed commit appears in
\* exactly one bucket exactly once, so that the lengths of the commit lists sum
\* to the number of processed commits.
C15_FeatureBucketsPartition ==
    \A r \in Results :
        LET n == Len(r.commits)
            bucketOf == [k \in 1..n |-> extractBusinessFeature(r.commits[k].message)]
            entries == r.businessFeatures
        IN /\ {entries[e].feature : e \in 1..Len(entries)} = {bucketOf[k] : k \in 1..n}
           /\ \A e, f \in 1..Len(entries) :
                 entries[e].feature = entries[f].feature => e = f
           /\ \A e \in 1..Len(entries) :
                 LET hashes == {entries[e].commits[j] : j \in 1..Len(entries[e].commits)}
                 IN /\ Cardinality(hashes) = Len(entries[e].commits)
                    /\ hashes = {r.commits[k].hash :
                                    k \in {j \in 1..n : bucketOf[j] = entries[e].feature}}
           /\ Sum([e \in 1..Len(entries) |-> Len(entries[e].commits)]) = n

\* a result over more than 50 commits with several buckets, one of them holding
\* several commits
C15_Witness ==
    \E r \in Results :
        /\ Len(r.commits) > 50
        /\ Len(r.businessFeatures) >= 3
        /\ \E e \in 1..Len(r.businessFeatures) : Len(r.businessFeatures[e].commits) >= 2

\* C16: in every businessFeatures entry commits and timeline have the same
\* length, and timeline[j] is the date field, in the commits of the result, of
\* the commit whose hash is commits[j]; also for a commit whose source record
\* has no author date.
C16_TimelineIsCommitDate ==
    \A r \in Results :
        LET dateOfHash == [h \in {r.commits[k].hash : k \in 1..Len(r.commits)} |->
                              LET k == CHOOSE j \in 1..Len(r.commits) : r.commits[j].hash = h
                              IN r.commits[k].date]
        IN \A e \in 1..Len(r.businessFeatures) :
              LET entry == r.businessFeatures[e]
              IN /\ Len(entry.commits) = Len(entry.timeline)
                 /\ \A j \in 1..Len(entry.commits) :
                       entry.timeline[j] = dateOfHash[entry.commits[j]]

\* The position at which a name first appears in a sequence of names (0: nowhere)
FirstPosition(names, name) ==
    LET at == {k \in 1..Len(names) : names[k] = name}
    IN IF at = {} THEN 0 ELSE CHOOSE k \in at : \A j \in at : k <= j

\* The keys are exactly the names of the sequence, listed by first appearance
InFirstAppearanceOrder(keys, names) ==
    /\ {keys[e] : e \in 1..Len(keys)} = {names[k] : k \in 1..Len(names)}
    /\ \A e \in 1..(Len(keys) - 1) :
          FirstPosition(names, keys[e]) < FirstPosition(names, keys[e + 1])

\* C17: authorContributions lists the authors, and businessFeatures the feature
\* buckets, in the order in which each author name or bucket first appears in
\* the processed commit sequence, whatever the author names are.
C17_FirstAppearanceOrder ==
    \A r \in Results :
        LET n == Len(commitAnalyses)
        IN /\ InFirstAppearanceOrder(
                 [e \in 1..Len(r.authorContributions) |-> r.authorContributions[e].author],
                 [k \in 1..n |-> commitAnalyses[k].author])
           /\ InFirstAppearanceOrder(
                 [e \in 1..Len(r.businessFeatures) |-> r.businessFeatures[e].feature],
                 [k \in 1..n |-> extractBusinessFeature(commitAnalyses[k].message)])

----------------------------------------------------------------------------
(* Calls of analyzeRepositoryData against each other                        *)

Returned(r) == runs[r].pc = "returned"

ResultOf(r) == TheValue(runs[r].result)

\* Every commit of the argument of call r carries an author date
AllDated(r) ==
    \A k \in 1..Len(RunCommits(r)) : IsSome(RunCommits(r)[k].authorDate)

SignalsAt(r, idx) ==
    LET commit == RunCommits(r)[idx + 1]
    IN IF WithinDetailBudget(idx)
       THEN IF DetailThrowsFor(commit.sha)
            THEN EstimateAfterFailure(commit.message)
            ELSE StatsFromDetails(DetailOf(commit.sha))
       ELSE EstimateOlder(commit.message)

RECURSIVE AloneAccumulators(_, _)
\* The accumulators of call r after n iterations when it runs alone, given the
\* same detail-fetch outcomes and the same clock readings
AloneAccumulators(r, n) ==
    IF n = 0 THEN [commitAnalyses |-> <<>>, authorStats |-> <<>>, businessFeatures |-> <<>>]
    ELSE Accumulate(AloneAccumulators(r, n - 1), RunCommits(r)[n], SignalsAt(r, n - 1),
                    runs[r].clockReads[n][1], runs[r].clockReads[n][2])

\* C19: two runs of analyzeRepositoryData over different inputs, interleaved in
\* any way at their await points, each return the result they return when run
\* alone.
C19_InterleavedRunsAsAlone ==
    \A r \in RunIds :
        Returned(r) =>
            /\ Len(runs[r].clockReads) = Len(RunCommits(r))
            /\ ResultOf(r) = AnalysisResultOf(AloneAccumulators(r, Len(RunCommits(r))))

\* both runs have returned, the second having started before the first, over
\* 51 commits, had returned
C19_Witness ==
    /\ Returned(1)
    /\ Returned(2)
    /\ Len(RunCommits(1)) > DetailBudget
    /\ Len(RunCommits(2)) >= 2
    /\ Len(ResultOf(1).commits) = Len(RunCommits(1))
    /\ Len(ResultOf(2).commits) = Len(RunCommits(2))

----------------------------------------------------------------------------
(* Order of processing and of the detail fetches within one run             *)

\* Detail fetches that have completed, by returning or by throwing: those of the
\* finished iterations within the detail budget
CompletedFetches == Min(Len(commitAnalyses), DetailBudget)

\* C20: analyzeRepositoryData processes the commits in exactly the order given
\* and issues the detail fetches one at a time in increasing index order: the
\* fetch for index j is issued only after the fetch for every smaller index has
\* completed, and never two fetches are outstanding at once.
C20_SequentialFetches ==
    pc \in {"analyze", "awaitDetail", "done"} =>
        /\ Len(commitAnalyses) <= Len(commits)
        /\ \A k \in 1..Len(commitAnalyses) : commitAnalyses[k].hash = commits[k].sha
        /\ \A n \in 1..Len(detailRequests) : detailRequests[n] = n - 1
        /\ detailFailed \subseteq 0..(CompletedFetches - 1)
        /\ Len(detailRequests) - CompletedFetches \in {0, 1}
        /\ Len(detailRequests) - CompletedFetches = 1 <=> pc = "awaitDetail"
        /\ pc = "awaitDetail" => i = Len(commitAnalyses) /\ i = Len(detailRequests) - 1

\* the fetch for the last index within the budget is outstanding, all 49 before
\* it have completed and some of them have failed
C20_Witness ==
    /\ pc = "awaitDetail"
    /\ detailRequests[Len(detailRequests)] = DetailBudget - 1
    /\ Len(commitAnalyses) = DetailBudget - 1
    /\ detailFailed # {}
    /\ Cardinality(detailFailed) < DetailBudget - 1

----------------------------------------------------------------------------
(* Volume of the local handler, author resolution, paging                   *)

\* C21: when the commits come from a local clone no ceiling is applied: the
\* result of the local handler has as many commits as the history of the
\* repository, however large.
C21_LocalHistoryUncapped ==
    AnsweredBy("local") =>
        \A r \in Results : Len(r.commits) = repoSize

\* A display name or login that is there: defined and not the empty string
Present(o) == o # None /\ o # Some("")

\* C22: the author of a normalized commit is the commit-author display name when
\* one is present, else the source-account login when one is present, else the
\* literal "Unknown"; every commit gets an author, the resolution never fails.
C22_AuthorResolutionOrder ==
    pc \in {"analyze", "awaitDetail", "done"} =>
        /\ pc # "done" => Len(commitAnalyses) = i
        /\ \A k \in 1..Len(commitAnalyses) :
              LET raw == commits[k]
                  author == commitAnalyses[k].author
              IN /\ Present(raw.authorName) => Some(author) = raw.authorName
                 /\ (~Present(raw.authorName) /\ Present(raw.login)) =>
                        Some(author) = raw.login
                 /\ (~Present(raw.authorName) /\ ~Present(raw.login)) =>
                        author = "Unknown"
                 /\ author = "Unknown" => ~Present(raw.login)
        /\ \A r \in response : r.status # 500

\* a result with an author taken from the display name although a login is
\* there, one taken from the login, and one defaulted
C22_Witness ==
    \E r \in Results :
        /\ Len(r.commits) >= 3
        /\ r.commits[1].author = "Ada" /\ commits[1].login = Some("ada-l")
        /\ r.commits[2].author = "octocat" /\ commits[2].authorName = None
        /\ r.commits[3].author = "Unknown" /\ commits[3].login = None

\* The number of page requests after which the loop is over: one per full page
\* and one for the page that ends it, ten at most, fewer when a request fails
PagesUntilStop ==
    LET byData == Min(10, (repoSize \div 100) + 1)
    IN IF pageFailAt \in 1..byData THEN pageFailAt ELSE byData

\* C23: fetchCompleteCommitHistory terminates when every page request returns or
\* throws: it stops at the first empty page, at the first page of fewer than 100
\* commits, at the first failed request, or as soon as 1000 commits are
\* accumulated, and issues at most 10 page requests.
C23_FetchStops ==
    /\ Len(pageRequests) <= 10
    /\ Len(pageRequests) <= PagesUntilStop
    /\ pc = "awaitPage" => Len(pageRequests) = page
    /\ (pc = "fetch" /\ Len(pageRequests) = PagesUntilStop) => ~ContinueFetching
    /\ (pc = "fetch" /\ historyFailed) => ~hasMore
    /\ (pc = "fetch" /\ Len(pageRequests) >= 1 /\ ~historyFailed
          /\ Len(PageData(pageRequests[Len(pageRequests)])) < 100) => ~hasMore
    /\ pc \in {"analyze", "awaitDetail", "done"} /\ repoExists /\ parseRepoId(repoId) # None
          => Len(pageRequests) = PagesUntilStop

\* the loop is over after ten full pages of a repository that holds more
C23_Witness ==
    /\ pc = "fetch"
    /\ ~ContinueFetching
    /\ hasMore
    /\ Len(pageRequests) = 10
    /\ Len(PageData(11)) > 0

----------------------------------------------------------------------------
(* The hosted query route: the commit list of the prompt context            *)

LargeHistory == 500
RecentCount == 300
OlderStride == 5
ShortHash == 8

PromptSizes == (0..5) \cup (296..304) \cup (490..512) \cup (995..1000)
PromptOffsets == {0, 1, 2}

PromptCorpus ==
    << "feat: add login\n\nCloses the sign-in ticket",
       "fix typo",
       "docs: README\nand the changelog",
       "Refactor build scripts",
       "\nleading newline",
       "bump version",
       "" >>

ClassifiedCorpus ==
    [c \in 1..Len(PromptCorpus) |-> categorizeCommit(PromptCorpus[c])]

Digit(d) == SubSeq("0123456789", d + 1, d + 1)

\* A commit hash: twelve characters that differ from commit to commit in the
\* last six
ShaOf(k) ==
    "a1b2c3" \o Digit((k \div 1000) % 10) \o Digit((k \div 100) % 10)
             \o Digit((k \div 10) % 10) \o Digit(k % 10) \o "ef"

\* The analysed record of the k-th most recent commit
AnalysedCommit(k) ==
    LET c == (k % Len(PromptCorpus)) + 1
        signals == EstimateOlder(PromptCorpus[c])
    IN [hash |-> ShaOf(k),
        date |-> DateOf(k),
        author |-> IF k % 3 = 0 THEN "Ada" ELSE "Unknown",
        message |-> PromptCorpus[c],
        filesChanged |-> signals.filesChanged,
        insertions |-> signals.insertions,
        deletions |-> signals.deletions,
        complexity |-> 4 * (signals.insertions + signals.deletions + 1),
        semanticCategory |-> ClassifiedCorpus[c].category,
        businessImpact |-> ClassifiedCorpus[c].impact]

\* message.split('\n')[0]
FirstLine(s) ==
    LET breaks == {k \in 1..Len(s) : SubSeq(s, k, k) = "\n"}
    IN IF breaks = {} THEN s
       ELSE SubSeq(s, 1, (CHOOSE k \in breaks : \A j \in breaks : k <= j) - 1)

\* The entry of processedCommits for one analysed commit
ProcessedCommit(commit) ==
    [hash |-> SubSeq(commit.hash, 1, Min(ShortHash, Len(commit.hash))),
     message |-> FirstLine(commit.message),
     author |-> commit.author,
     date |-> commit.date,
     filesChanged |-> commit.filesChanged,
     insertions |-> commit.insertions,
     deletions |-> commit.deletions,
     complexity |-> commit.complexity,
     category |-> commit.semanticCategory,
     impact |-> commit.businessImpact]

\* older.filter((_, index) => index % stride === 0)
EveryNth(older, stride) ==
    [t \in 1..((Len(older) + stride - 1) \div stride) |-> older[(t - 1) * stride + 1]]

\* The list sampled from 500 commits on
SampledCommitsFromThreshold(list) ==
    LET processedCommits == [k \in 1..Len(list) |-> ProcessedCommit(list[k])]
    IN IF Len(processedCommits) >= LargeHistory
       THEN SubSeq(processedCommits, 1, RecentCount)
            \o EveryNth(SubSeq(processedCommits, RecentCount + 1, Len(processedCommits)),
                        OlderStride)
       ELSE processedCommits

\* repoContext.allCommits for the commits of the analysis result
SampledCommits(list) ==
    LET processedCommits == [k \in 1..Len(list) |-> ProcessedCommit(list[k])]
    IN IF Len(processedCommits) > LargeHistory
       THEN SubSeq(processedCommits, 1, RecentCount)
            \o EveryNth(SubSeq(processedCommits, RecentCount + 1, Len(processedCommits)),
                        OlderStride)
       ELSE processedCommits

InitPrompt ==
    /\ pc = "prompt"
    /\ ClassifierIdle
    /\ ComplexityIdle
    /\ HandlersIdle
    /\ CopiesIdle
    /\ StoreIdle
    /\ CloneIdle
    /\ PageIdle
    /\ \E n \in PromptSizes, first \in PromptOffsets :
          analysisData = [k \in 1..n |-> AnalysedCommit(first + k)]
    /\ repoContext = None

\* POST: repoContext is built from the analysis result
BuildContext ==
    /\ pc = "prompt"
    /\ repoContext = None
    /\ repoContext' =
          Some([totalCommits |-> Len(analysisData),
                recentCommits |->
                    [k \in 1..Min(10, Len(analysisData)) |->
                        [hash |-> SubSeq(analysisData[k].hash, 1,
                                         Min(ShortHash, Len(analysisData[k].hash))),
                         message |-> analysisData[k].message,
                         author |-> analysisData[k].author,
                         date |-> analysisData[k].date,
                         filesChanged |-> analysisData[k].filesChanged,
                         insertions |-> analysisData[k].insertions,
                         deletions |-> analysisData[k].deletions,
                         complexity |-> analysisData[k].complexity]],
                allCommits |-> SampledCommits(analysisData)])
    /\ UNCHANGED <<pipelineVars, analysisData, copyVars, storeVars, cloneVars, pageVars>>

NextPrompt == BuildContext

SpecPrompt == InitPrompt /\ [][NextPrompt]_vars

\* Entry k of the context list is the analysed commit at position at
IsCommitAt(entry, at) ==
    /\ entry.date = analysisData[at].date
    /\ entry.author = analysisData[at].author
    /\ entry.complexity = analysisData[at].complexity
    /\ entry.category = analysisData[at].semanticCategory
    /\ entry.hash = SubSeq(analysisData[at].hash, 1, 8)
    /\ entry.message = FirstLine(analysisData[at].message)

\* C24: the commit list of the prompt context is the full analysed list, in
\* order, when that has at most 500 commits; when it has more, it is the first
\* 300 commits followed by every 5th commit of the remainder (remainder
\* positions 0, 5, 10, ...), in the original order and without duplicates.
C24_PromptSampling ==
    \A ctx \in repoContext :
        LET n == Len(analysisData)
            out == ctx.allCommits
        IN /\ n <= 500 =>
                /\ Len(out) = n
                /\ \A k \in 1..n : IsCommitAt(out[k], k)
           /\ n > 500 =>
                /\ Len(out) = 300 + ((n - 300 + 4) \div 5)
                /\ \A k \in 1..300 : IsCommitAt(out[k], k)
                /\ \A t \in 1..(Len(out) - 300) :
                      IsCommitAt(out[300 + t], 300 + 5 * (t - 1) + 1)
           /\ \A k \in 1..(Len(out) - 1) : out[k].date > out[k + 1].date

\* a context built from 1000 commits: 300 recent ones and 140 of the older
C24_Witness ==
    \E ctx \in repoContext :
        /\ Len(analysisData) = 1000
        /\ Len(ctx.allCommits) = 440
        /\ ctx.allCommits[301].date = analysisData[301].date
        /\ ctx.allCommits[302].date = analysisData[306].date

----------------------------------------------------------------------------
(* fetchCompleteCommitHistory: the order of the page requests *)

\* The pages received so far: requested, returned and not thrown
ReceivedPages ==
    {k \in 1..Len(pageRequests) :
        /\ pageRequests[k] # pageFailAt
        /\ ~(pc = "awaitPage" /\ k = Len(pageRequests))}

RECURSIVE PagesInOrder(_)
PagesInOrder(n) ==
    IF n = 0 THEN <<>>
    ELSE PagesInOrder(n - 1)
         \o (IF n \in ReceivedPages THEN PageData(pageRequests[n]) ELSE <<>>)

\* C25: the pages are requested as 1, 2, 3, ..., each at most once, page k+1
\* only after page k returned a full page of 100 commits, and the list the
\* fetch accumulates and returns is the concatenation of the received pages in
\* page order.
C25_PagesInOrder ==
    /\ pageRequests = [k \in 1..Len(pageRequests) |-> k]
    /\ \A k \in 2..Len(pageRequests) :
          /\ (k - 1) \in ReceivedPages
          /\ Len(PageData(k - 1)) = 100
    /\ pc \in {"fetch", "awaitPage"} =>
          allCommits = PagesInOrder(Len(pageRequests))
    /\ (pc \in {"analyze", "awaitDetail", "done"} /\ Len(pageRequests) > 0) =>
          commits = PagesInOrder(Len(pageRequests))

\* two full pages were received, the third request failed, and the 200 commits
\* of the two pages were returned
C25_Witness ==
    /\ pc = "analyze"
    /\ pageRequests = <<1, 2, 3>>
    /\ pageFailAt = 3
    /\ Len(commits) = 200
    /\ commits = PageData(1) \o PageData(2)

----------------------------------------------------------------------------
(* The copies of the classifier *)

\* categorizeCommit as defined in the hosted analysis route
hostedCategorizeCommit(m) ==
    FirstMatch(ToLowerCase(m),
               << <<{"feat", "feature", "add"}, [category |-> "feature", impact |-> "enhancement"]>>,
                  <<{"fix", "bug"}, [category |-> "bugfix", impact |-> "stability"]>>,
                  <<{"refactor", "clean"}, [category |-> "refactor", impact |-> "technical debt"]>>,
                  <<{"test", "spec"}, [category |-> "testing", impact |-> "quality"]>>,
                  <<{"doc", "readme"}, [category |-> "documentation", impact |-> "usability"]>>,
                  <<{"perf", "optimize"}, [category |-> "performance", impact |-> "performance"]>>,
                  <<{"security", "auth"}, [category |-> "security", impact |-> "security"]>> >>,
               [category |-> "other", impact |-> "maintenance"])

\* extractBusinessFeature as defined in the hosted analysis route
hostedExtractBusinessFeature(m) ==
    FirstMatch(ToLowerCase(m),
               << <<{"auth", "login", "signup"}, "Authentication">>,
                  <<{"user", "profile"}, "User Management">>,
                  <<{"api", "endpoint"}, "API Development">>,
                  <<{"ui", "frontend", "component"}, "UI/UX">>,
                  <<{"database", "db", "migration"}, "Database">>,
                  <<{"deploy", "ci", "build"}, "DevOps">>,
                  <<{"test", "spec"}, "Testing">>,
                  <<{"doc", "readme"}, "Documentation">> >>,
               "Core Development")

\* categorizeCommit as defined in the local analysis route
localCategorizeCommit(m) ==
    LET msg == ToLowerCase(m) IN
    CASE Includes(msg, "feat") \/ Includes(msg, "feature") \/ Includes(msg, "add") ->
            [category |-> "feature", impact |-> "enhancement"]
      [] OTHER ->
    CASE Includes(msg, "fix") \/ Includes(msg, "bug") ->
            [category |-> "bugfix", impact |-> "stability"]
      [] OTHER ->
    CASE Includes(msg, "refactor") \/ Includes(msg, "clean") ->
            [category |-> "refactor", impact |-> "technical debt"]
      [] OTHER ->
    CASE Includes(msg, "test") \/ Includes(msg, "spec") ->
            [category |-> "testing", impact |-> "quality"]
      [] OTHER ->
    CASE Includes(msg, "doc") \/ Includes(msg, "readme") ->
            [category |-> "documentation", impact |-> "usability"]
      [] OTHER ->
    CASE Includes(msg, "perf") \/ Includes(msg, "optimize") ->
            [category |-> "performance", impact |-> "performance"]
      [] OTHER ->
    CASE Includes(msg, "security") \/ Includes(msg, "auth") ->
            [category |-> "security", impact |-> "security"]
      [] OTHER -> [category |-> "other", impact |-> "maintenance"]

\* extractBusinessFeature as defined in the local analysis route
localExtractBusinessFeature(m) ==
    LET msg == ToLowerCase(m) IN
    CASE Includes(msg, "auth") \/ Includes(msg, "login") \/ Includes(msg, "signup") ->
            "Authentication"
      [] OTHER ->
    CASE Includes(msg, "user") \/ Includes(msg, "profile") -> "User Management"
      [] OTHER ->
    CASE Includes(msg, "api") \/ Includes(msg, "endpoint") -> "API Development"
      [] OTHER ->
    CASE Includes(msg, "ui") \/ Includes(msg, "frontend") \/ Includes(msg, "component") ->
            "UI/UX"
      [] OTHER ->
    CASE Includes(msg, "database") \/ Includes(msg, "db") \/ Includes(msg, "migration") ->
            "Database"
      [] OTHER ->
    CASE Includes(msg, "deploy") \/ Includes(msg, "ci") \/ Includes(msg, "build") ->
            "DevOps"
      [] OTHER ->
    CASE Includes(msg, "test") \/ Includes(msg, "spec") -> "Testing"
      [] OTHER ->
    CASE Includes(msg, "doc") \/ Includes(msg, "readme") -> "Documentation"
      [] OTHER -> "Core Development"

\* The inline feature rules of the local query route
inlineBusinessFeature(msg) ==
    FirstMatch(msg,
               << <<{"auth", "login", "signup"}, "Authentication">>,
                  <<{"user", "profile"}, "User Management">>,
                  <<{"api", "endpoint"}, "API Development">>,
                  <<{"ui", "frontend", "component"}, "UI/UX">>,
                  <<{"database", "db", "migration"}, "Database">>,
                  <<{"deploy", "ci", "build"}, "DevOps">>,
                  <<{"test", "spec"}, "Testing">>,
                  <<{"doc", "readme"}, "Documentation">> >>,
               "Core Development")

\* The inline category rules with the security rule tested before the
\* documentation rule
inlineCategorySecurityEarly(msg) ==
    FirstMatch(msg,
               << <<{"feat", "feature", "add"}, "feature">>,
                  <<{"fix", "bug"}, "bugfix">>,
                  <<{"refactor", "clean"}, "refactor">>,
                  <<{"test", "spec"}, "testing">>,
                  <<{"security", "auth"}, "security">>,
                  <<{"doc", "readme"}, "documentation">>,
                  <<{"perf", "optimize"}, "performance">> >>,
               "other")

\* The inline category rules of the local query route
inlineCategory(msg) ==
    FirstMatch(msg,
               << <<{"feat", "feature", "add"}, "feature">>,
                  <<{"fix", "bug"}, "bugfix">>,
                  <<{"refactor", "clean"}, "refactor">>,
                  <<{"test", "spec"}, "testing">>,
                  <<{"doc", "readme"}, "documentation">>,
                  <<{"perf", "optimize"}, "performance">>,
                  <<{"security", "auth"}, "security">> >>,
               "other")

InitCopies ==
    /\ pc = "copies"
    /\ message \in Messages
    /\ catResult = None
    /\ featResult = None
    /\ ComplexityIdle
    /\ HandlersIdle
    /\ PromptIdle
    /\ CopiesIdle
    /\ StoreIdle
    /\ CloneIdle
    /\ PageIdle

\* One copy is called on the message
CopyReturns(c, category, feature) ==
    /\ pc = "copies"
    /\ copyResults[c] = None
    /\ copyResults' =
          [copyResults EXCEPT ![c] = Some([category |-> category, feature |-> feature])]
    /\ UNCHANGED <<pipelineVars, promptVars, storeVars, cloneVars, pageVars>>

\* The hosted analysis route: its own functions
CallHostedCopy ==
    CopyReturns("hosted", hostedCategorizeCommit(message).category,
                hostedExtractBusinessFeature(message))

\* The local analysis route: its own functions
CallLocalCopy ==
    CopyReturns("local", localCategorizeCommit(message).category,
                localExtractBusinessFeature(message))

\* The local query route: the rules inside its commits.forEach
CallInlineRules ==
    LET msg == ToLowerCase(message)
    IN CopyReturns("inline", inlineCategory(msg), inlineBusinessFeature(msg))

NextCopies == CallHostedCopy \/ CallLocalCopy \/ CallInlineRules

SpecCopies == InitCopies /\ [][NextCopies]_vars

\* C26: for every message, the shared classifier, the copies of the hosted and
\* local analysis routes and the inline rules of the local query route return
\* the same semantic category and the same business feature.
C26_CopiesAgree ==
    /\ \A c, d \in CopyNames :
          \A x \in copyResults[c], y \in copyResults[d] : x = y
    /\ (\A c \in CopyNames : copyResults[c] # None) =>
          copyResults["inline"] =
              Some([category |-> categorizeCommit(message).category,
                    feature |-> extractBusinessFeature(message)])

\* all the copies have classified a message that triggers two category rules
\* and two feature rules, and agree on the earlier rule of each
C26_Witness ==
    /\ message = "docauth"
    /\ \A c \in CopyNames :
          copyResults[c] = Some([category |-> "documentation", feature |-> "Authentication"])

----------------------------------------------------------------------------
(* repositoryStore *)

StoreOwners == {"octocat", "my-org"}
StoreRepoNames == {"app", "org-app"}
StoreUrlForms == {"", ".git"}

\* A GitHubRepo object as a caller of add builds it
GitHubRepo(owner, repo, form) ==
    [owner |-> owner,
     repo |-> repo,
     fullName |-> owner \o "/" \o repo,
     url |-> "https://github.com/" \o owner \o "/" \o repo \o form,
     addedAt |-> IF form = "" THEN 1 ELSE 2]

StoreRepos ==
    {GitHubRepo(o, r, f) : o \in StoreOwners, r \in StoreRepoNames, f \in StoreUrlForms}

StoreFullNames == {g.fullName : g \in StoreRepos} \cup {"my/org-app", "nobody/none"}

StoreIds == {"octocat-app", "my-org-app", "octocat-org-app", "nodash", ""}

\* repositories.findIndex(r => r.fullName === fullName), counted from 1 (0: none)
FindIndex(list, fullName) ==
    LET hits == {k \in 1..Len(list) : list[k].fullName = fullName}
    IN IF hits = {} THEN 0 ELSE CHOOSE k \in hits : \A j \in hits : k <= j

\* repositories.find(r => r.fullName === fullName)
Find(list, fullName) ==
    IF FindIndex(list, fullName) = 0 THEN None
    ELSE Some(list[FindIndex(list, fullName)])

\* add without the look-up of an existing entry
AfterAddUnchecked(list, repo) == Append(list, repo)

\* The array after add(repo)
AfterAdd(list, repo) ==
    IF Find(list, repo.fullName) = None THEN Append(list, repo) ELSE list

\* The array after remove(fullName): splice(index, 1)
AfterRemove(list, fullName) ==
    LET index == FindIndex(list, fullName)
    IN IF index >= 1
       THEN SubSeq(list, 1, index - 1) \o SubSeq(list, index + 1, Len(list))
       ELSE list

\* findById: the id is split at every '-', the owner is the first part and the
\* repository name the other parts joined by '-'
FindById(list, id) ==
    LET dashes == {k \in 1..Len(id) : SubSeq(id, k, k) = "-"}
    IN IF dashes = {} THEN None
       ELSE LET d == CHOOSE k \in dashes : \A j \in dashes : k <= j
                owner == SubSeq(id, 1, d - 1)
                repo == SubSeq(id, d + 1, Len(id))
            IN Find(list, owner \o "/" \o repo)

InitStore ==
    /\ pc = "store"
    /\ ClassifierIdle
    /\ ComplexityIdle
    /\ HandlersIdle
    /\ PromptIdle
    /\ CopiesIdle
    /\ StoreIdle
    /\ CloneIdle
    /\ PageIdle

\* The record of a call: what was called with what, on which array, and what
\* it returned
Called(op, arg, returned) ==
    storeCall' = Some([op |-> op, arg |-> arg, before |-> repositories,
                       returned |-> returned])

getAll ==
    /\ pc = "store"
    /\ Called("getAll", "", repositories)
    /\ UNCHANGED <<pipelineVars, promptVars, copyVars, cloneVars, pageVars, repositories>>

add(repo) ==
    /\ pc = "store"
    /\ repositories' = AfterAdd(repositories, repo)
    /\ Called("add", repo, None)
    /\ UNCHANGED <<pipelineVars, promptVars, copyVars, cloneVars, pageVars>>

findByFullName(fullName) ==
    /\ pc = "store"
    /\ Called("findByFullName", fullName, Find(repositories, fullName))
    /\ UNCHANGED <<pipelineVars, promptVars, copyVars, cloneVars, pageVars, repositories>>

findById(id) ==
    /\ pc = "store"
    /\ Called("findById", id, FindById(repositories, id))
    /\ UNCHANGED <<pipelineVars, promptVars, copyVars, cloneVars, pageVars, repositories>>

remove(fullName) ==
    /\ pc = "store"
    /\ repositories' = AfterRemove(repositories, fullName)
    /\ Called("remove", fullName, FindIndex(repositories, fullName) >= 1)
    /\ UNCHANGED <<pipelineVars, promptVars, copyVars, cloneVars, pageVars>>

NextStore ==
    \/ getAll
    \/ \E repo \in StoreRepos : add(repo)
    \/ \E fullName \in StoreFullNames : findByFullName(fullName)
    \/ \E id \in StoreIds : findById(id)
    \/ \E fullName \in StoreFullNames : remove(fullName)

SpecStore == InitStore /\ [][NextStore]_vars

\* The entries of list with the given fullName
EntriesOf(list, fullName) == {k \in 1..Len(list) : list[k].fullName = fullName}

\* C27: after any sequence of calls the store holds at most one entry per
\* fullName; add of a fullName already present leaves the store unchanged, and
\* remove deletes only the entry with the given fullName and returns true
\* exactly when one was present.
C27_OneEntryPerFullName ==
    /\ \A j, k \in 1..Len(repositories) :
          repositories[j].fullName = repositories[k].fullName => j = k
    /\ \A call \in storeCall :
          /\ call.op \in {"getAll", "findByFullName", "findById"} =>
                repositories = call.before
          /\ call.op = "add" =>
                IF EntriesOf(call.before, call.arg.fullName) # {}
                THEN repositories = call.before
                ELSE repositories = Append(call.before, call.arg)
          /\ call.op = "remove" =>
                /\ call.returned = (EntriesOf(call.before, call.arg) # {})
                /\ EntriesOf(repositories, call.arg) = {}
                /\ repositories =
                      SelectSeq(call.before, LAMBDA g : g.fullName # call.arg)

\* add was called for a fullName that the store held under another url, and
\* the first entry was kept
C27_Witness ==
    \E call \in storeCall :
        /\ call.op = "add"
        /\ Len(call.before) = 2
        /\ call.before[1].fullName = call.arg.fullName
        /\ call.before[1].url # call.arg.url
        /\ repositories = call.before

----------------------------------------------------------------------------
(* POST /api/clone *)

CloneUrls ==
    {"https://github.com/octocat/app",
     "https://github.com/octocat/app.git",
     "https://github.com/octocat/org-app/tree/main",
     "https://github.com/my-org/app/",
     "github.com/my/org-app",
     "https://example.com/octocat/app",
     "https://github.com/octocat",
     ""}

GitHubHost == "github.com/"

\* The position of the first '/' of s at or after from (Len(s) + 1: none)
SegmentEnd(s, from) ==
    LET slashes == {k \in from..Len(s) : SubSeq(s, k, k) = "/"}
    IN IF slashes = {} THEN Len(s) + 1
       ELSE CHOOSE k \in slashes : \A j \in slashes : k <= j

\* ([^\/]+?)(?:\.git)?: the shortest non-empty name, an ending ".git" left out
RepoOfSegment(seg) ==
    IF Len(seg) > 4 /\ SubSeq(seg, Len(seg) - 3, Len(seg)) = ".git"
    THEN SubSeq(seg, 1, Len(seg) - 4)
    ELSE seg

\* One pattern of parseGitHubUrl tried with "github.com/" at position k: the
\* first ends after the repository segment and an optional '/', the second
\* allows any further path
MatchAt(url, k, furtherPath) ==
    LET ownerFrom == k + Len(GitHubHost)
        ownerEnd == SegmentEnd(url, ownerFrom)
        segFrom == ownerEnd + 1
        segEnd == SegmentEnd(url, segFrom)
        seg == SubSeq(url, segFrom, segEnd - 1)
    IN IF /\ ownerFrom - 1 <= Len(url)
          /\ SubSeq(url, k, ownerFrom - 1) = GitHubHost
          /\ ownerEnd > ownerFrom
          /\ ownerEnd <= Len(url)
          /\ seg # ""
          /\ (furtherPath \/ segEnd >= Len(url))
       THEN Some([owner |-> SubSeq(url, ownerFrom, ownerEnd - 1),
                  repo |-> RepoOfSegment(seg)])
       ELSE None

\* url.match(pattern): the leftmost match
MatchPattern(url, furtherPath) ==
    LET at == {k \in 1..Len(url) : MatchAt(url, k, furtherPath) # None}
    IN IF at = {} THEN None
       ELSE MatchAt(url, CHOOSE k \in at : \A j \in at : k <= j, furtherPath)

parseGitHubUrl(url) ==
    IF MatchPattern(url, FALSE) # None THEN MatchPattern(url, FALSE)
    ELSE MatchPattern(url, TRUE)

InitClone ==
    /\ pc = "clone"
    /\ ClassifierIdle
    /\ ComplexityIdle
    /\ HandlersIdle
    /\ PromptIdle
    /\ CopiesIdle
    /\ StoreIdle
    /\ CloneIdle
    /\ PageIdle

\* The body of a 200 response
CloneSuccess(names, alreadyExists) ==
    [status |-> 200,
     folderName |-> names.owner \o "-" \o names.repo,
     alreadyExists |-> alreadyExists,
     owner |-> names.owner,
     repo |-> names.repo,
     fullName |-> names.owner \o "/" \o names.repo]

\* POST up to its await of repos.get: the URL is checked and parsed and the
\* store is asked for the full name
ClonePost(c, repoUrl) ==
    /\ pc = "clone"
    /\ cloneRequests[c].pc = "idle"
    /\ LET parsed == parseGitHubUrl(repoUrl)
       IN cloneRequests' = [cloneRequests EXCEPT ![c] =
             IF repoUrl = "" \/ parsed = None
             THEN [pc |-> "responded", repoUrl |-> repoUrl, parsed |-> None,
                   response |-> Some([status |-> 400])]
             ELSE IF Find(repositories, TheValue(parsed).owner \o "/" \o TheValue(parsed).repo)
                       # None
             THEN [pc |-> "responded", repoUrl |-> repoUrl, parsed |-> parsed,
                   response |-> Some(CloneSuccess(TheValue(parsed), TRUE))]
             ELSE [pc |-> "awaitGet", repoUrl |-> repoUrl, parsed |-> parsed,
                   response |-> None]]
    /\ UNCHANGED <<pipelineVars, promptVars, copyVars, storeVars, pageVars>>

\* repos.get returns: the repository is added and reported as new
CloneGetReturns(c) ==
    /\ pc = "clone"
    /\ cloneRequests[c].pc = "awaitGet"
    /\ LET names == TheValue(cloneRequests[c].parsed)
           newRepo == [owner |-> names.owner,
                       repo |-> names.repo,
                       fullName |-> names.owner \o "/" \o names.repo,
                       url |-> cloneRequests[c].repoUrl,
                       addedAt |-> c]
       IN /\ repositories' = AfterAdd(repositories, newRepo)
          /\ cloneRequests' = [cloneRequests EXCEPT ![c] =
                [@ EXCEPT !.pc = "responded",
                          !.response = Some(CloneSuccess(names, FALSE))]]
    /\ UNCHANGED <<pipelineVars, promptVars, copyVars, storeCall, pageVars>>

\* repos.get throws: 404
CloneGetThrows(c) ==
    /\ pc = "clone"
    /\ cloneRequests[c].pc = "awaitGet"
    /\ cloneRequests' = [cloneRequests EXCEPT ![c] =
          [@ EXCEPT !.pc = "responded", !.response = Some([status |-> 404])]]
    /\ UNCHANGED <<pipelineVars, promptVars, copyVars, storeVars, pageVars>>

NextClone ==
    \E c \in CloneIds :
        \/ \E repoUrl \in CloneUrls : ClonePost(c, repoUrl)
        \/ CloneGetReturns(c)
        \/ CloneGetThrows(c)

SpecClone == InitClone /\ [][NextClone]_vars

\* The 200 responses of the clone requests
Cloned == {c \in CloneIds : \E r \in cloneRequests[c].response : r.status = 200}

CloneResponse(c) == TheValue(cloneRequests[c].response)

\* C28: of the POST /api/clone requests that name the same repository, at most
\* one is answered with alreadyExists: false, whatever their interleaving.
C28_AddedOnce ==
    \A c, d \in Cloned :
        /\ CloneResponse(c).fullName = CloneResponse(d).fullName
        /\ ~CloneResponse(c).alreadyExists
        /\ ~CloneResponse(d).alreadyExists
        => c = d

\* C29: the id the clone route builds parses back, with parseRepoId and with
\* findById, to the owner and repository name it was built from.
C29_RepoIdRoundTrip ==
    \A c \in Cloned :
        LET r == CloneResponse(c)
        IN /\ parseRepoId(r.folderName) = Some([owner |-> r.owner, repo |-> r.repo])
           /\ \E g \in FindById(repositories, r.folderName) :
                 g.owner = r.owner /\ g.repo = r.repo

----------------------------------------------------------------------------
(* The page component: selection of a repository and its analysis *)

MaxFetches == 3
PageRepoIds == {"octocat-app", "octocat-org-app"}

\* The body of a successful analysis response for a repository
AnalysisOf(id) == [repository |-> id]

InitPage ==
    /\ pc = "page"
    /\ ClassifierIdle
    /\ ComplexityIdle
    /\ HandlersIdle
    /\ PromptIdle
    /\ CopiesIdle
    /\ StoreIdle
    /\ CloneIdle
    /\ PageIdle

\* handleSelectRepo: a click on the selected repository deselects it, a click
\* on another one selects it and calls fetchAnalysis, which runs up to its
\* await of fetch
handleSelectRepo(id) ==
    /\ pc = "page"
    /\ IF selectedRepo = Some(id)
       THEN /\ selectedRepo' = None
            /\ pageAnalysisData' = None
            /\ UNCHANGED <<isLoadingAnalysis, fetches>>
       ELSE /\ Len(fetches) < MaxFetches
            /\ selectedRepo' = Some(id)
            /\ isLoadingAnalysis' = TRUE
            /\ fetches' = Append(fetches, [repoId |-> id, status |-> "pending"])
            /\ UNCHANGED pageAnalysisData
    /\ UNCHANGED <<pipelineVars, promptVars, copyVars, storeVars, cloneVars>>

\* fetchAnalysis: the response of the k-th request arrives and is ok
AnalysisReturns(k) ==
    /\ pc = "page"
    /\ k \in 1..Len(fetches)
    /\ fetches[k].status = "pending"
    /\ pageAnalysisData' = Some(AnalysisOf(fetches[k].repoId))
    /\ isLoadingAnalysis' = FALSE
    /\ fetches' = [fetches EXCEPT ![k].status = "ok"]
    /\ UNCHANGED <<pipelineVars, promptVars, copyVars, storeVars, cloneVars, selectedRepo>>

\* fetchAnalysis: the response of the k-th request is not ok, or fetch throws
AnalysisFails(k) ==
    /\ pc = "page"
    /\ k \in 1..Len(fetches)
    /\ fetches[k].status = "pending"
    /\ pageAnalysisData' = None
    /\ isLoadingAnalysis' = FALSE
    /\ fetches' = [fetches EXCEPT ![k].status = "failed"]
    /\ UNCHANGED <<pipelineVars, promptVars, copyVars, storeVars, cloneVars, selectedRepo>>

NextPage ==
    \/ \E id \in PageRepoIds : handleSelectRepo(id)
    \/ \E k \in 1..MaxFetches : AnalysisReturns(k)
    \/ \E k \in 1..MaxFetches : AnalysisFails(k)

SpecPage == InitPage /\ [][NextPage]_vars

InFlight == {k \in 1..Len(fetches) : fetches[k].status = "pending"}

\* The outcome of the latest request made for a repository
LatestResponse(id) ==
    LET made == {k \in 1..Len(fetches) : fetches[k].repoId = id}
        last == CHOOSE k \in made : \A j \in made : j <= k
    IN IF made # {} /\ fetches[last].status = "ok" THEN Some(AnalysisOf(id)) ELSE None

\* C30: once no analysis request is in flight, the displayed analysisData is
\* the response for the selected repository (null when none is selected or its
\* request failed), and isLoadingAnalysis is true exactly while some request
\* is in flight.
C30_DisplayedAnalysisIsSelected ==
    /\ isLoadingAnalysis <=> InFlight # {}
    /\ InFlight = {} =>
          /\ selectedRepo = None => pageAnalysisData = None
          /\ \A id \in selectedRepo : pageAnalysisData = LatestResponse(id)

====
